---- MODULE Spec2Model ----
(***************************************************************************)
(* Model of the incremental loaders of the meTasking terminal UI:          *)
(*   - LogList (commands/tui/work_log_list.py): a scrollable list fed by   *)
(*     an offset/limit paginated feed through an exclusive async worker    *)
(*     and callbacks scheduled on the widget's message queue;              *)
(*   - WorkLogCalendarDay (commands/tui/calendar.py): a day column whose   *)
(*     ranges are fetched by an exclusive async worker;                    *)
(*   - WorkLogCalendarDay of commands/tui/app.py: the same column fetched  *)
(*     by a non-exclusive thread worker.                                   *)
(*                                                                         *)
(* The textual runtime is modelled by what the code relies on:             *)
(*   - calling a @work method creates a worker; with exclusive=True the    *)
(*     workers of the same group on the same widget are cancelled first;   *)
(*   - an async worker runs on the event loop: its body runs atomically    *)
(*     between two awaits, and a cancelled async worker never resumes;     *)
(*   - a thread worker cannot be stopped: it runs to its end;              *)
(*   - call_after_refresh appends a callback to the widget's queue, and    *)
(*     the callbacks are run in order by the dispatch thread.              *)
(***************************************************************************)
EXTENDS Integers, Sequences, FiniteSets, TLC

\* ------------------------------------------------------------------ bounds
MaxFeed == 12        \* the feed holds 0..MaxFeed logs
MaxReloads == 2      \* reload_logs is called at most this many times
MaxCallbacks == 2    \* callbacks waiting in the widget's queue
ViewRows == 4        \* rows of the LogList viewport (one row per log)
NumDays == 2         \* days a calendar column can be navigated to
MaxDayLogs == 1      \* day d holds Min(d, MaxDayLogs) logs of one record each
MaxResets == 4       \* resets of a calendar column
MaxThreads == 2      \* thread workers of one column alive at once
MaxFeedChanges == 1  \* times the server's feed changes under a LogList
Fine == 2            \* grid points per sixteenth of a cell
MaxMerge == 2        \* ranges in a list given to _merge_ranges
EdgeRows == 2        \* rows next to either end of the day a drawn range ends in
MaxDrawn == 2        \* ranges a day column holds when it is drawn
ColumnWidth == 6     \* width of a day column that has been laid out
MaxLabels == 2       \* ranges of a day column whose labels are placed in turn
MaxRenders == 2      \* times a day column is drawn
TicksPerDay == 4     \* instants of a day a record can start or end at
MaxBarWidth == 3     \* cells of a RangeBar
BarParts == 8        \* a highlighted range starts and ends at k/BarParts
MaxBarRanges == 2    \* highlighted ranges of a RangeBar
MaxPresses == 3      \* presses of the report's previous and next buttons

\* ------------------------------------------------------- program constants
limit == 10          \* load_more_logs: limit = 10
page_limit == 100    \* list_all: page_limit default
ScrollMargin == 5    \* scroll_y_edge: max_scroll_y - 5
cal_page_limit == 20 \* calendar.py _refresh_data: page_limit=20
app_page_limit == 100 \* app.py refresh_data: limit=100
CALENDAR_HEIGHT == 96 \* calendar.py: rows of a day column

VARIABLES
    \* construction parameters of the LogList
    logs_only_active,    \* "None" | "True" | "False"
    logs_paging,         \* BOOLEAN
    \* the server's feed
    feedLen,             \* number of logs the list endpoint returns in all
    hasActive,           \* whether the server has an active log (log 1)
    feedChanges,         \* history: changes of the feed so far
    \* LogList state
    initial_load_done,
    logs_reached_end,
    logs_offset,
    loading,
    children,            \* widgets mounted in .container-logs: [id, epoch]
    scroll_y,
    workers,             \* workers of group "load_more_logs", oldest first
    callbacks,           \* call_after_refresh queue of the widget
    \* history
    epoch,               \* number of reload_logs calls so far
    accepted,            \* ids of the logs of the pages accepted since reload
    last,                \* the last operation and what it saw
    \* WorkLogCalendarDay of calendar.py
    day,                 \* 0 (None) or a day 1..NumDays
    _ranges,             \* the ranges shown: [day, idx, gen]
    cal_mounted,
    cal_workers,         \* workers of group "calendar_refresh_data"
    cal_gen,             \* history: resets (day changes, refresh_data) so far
    cal_last,            \* history: the last operation
    cal_held,            \* history: what the column held when refresh_data
                         \* was last requested: [valid, ranges]
    \* WorkLogCalendarDay of app.py
    app_day,
    app_ranges,
    app_mounted,
    app_workers,         \* thread workers of refresh_data
    app_gen,             \* history: resets (day changes) so far
    app_last,            \* history: the last operation
    \* the textual App
    exited,              \* the app was stopped by a worker that raised
    \* a call of _merge_ranges or WLCalCS.from_ranges
    cell_ranges,         \* the caller's list `ranges`: [start, end, color]
    merged_ranges,       \* what _merge_ranges returned
    cell_state,          \* what from_ranges returned: [state, color]
    cell_last,           \* "input" | "_merge_ranges" | "from_ranges"
    drawn_ranges,        \* _ranges of a WorkLogCalendarDay that is drawn
    output,              \* what render returned, or the exception it raised
    render_last,         \* "input" | "render"
    lines,               \* render: lines_ranges and lines_texts in its loop
    turn,                \* render: entries of _ranges its loop has drawn
    name_hash,           \* hash() of the names in this process
    placed,              \* history: per turn, the rows whose label changed
    drawn_width,         \* size.width of the column when it was last drawn
    renders,             \* times the column has been drawn
    redrawn,             \* history: "none", or whether a render of the same
                         \* ranges and width as the one before gave the
                         \* "same" output or a "changed" one
    record,              \* a record of a log the server returned
    now,                 \* datetime.now() when the record is read
    stored,              \* the ranges a loader appended for the record
    ingest_last,         \* "input" | "calendar.py" | "app.py"
    highlighted_ranges,  \* RangeBar.highlighted_ranges
    max_width,           \* options.max_width of a RangeBar that is drawn
    bar,                 \* what __rich_console__ yielded and raised
    bar_last,            \* "input" | "__rich_console__"
    month_start,         \* WorkLogReport.month_start
    heading,             \* the two dates of .report-date-heading
    shown_days,          \* day widgets of the report with display = True
    total_day,           \* day of the report's total WorkLogReportDay
    total_window,        \* day_since and day_until of the total's last fetch
    refresh_pending,     \* the total's _refresh_data worker has not run yet
    report_raised,       \* "" | what raised ValueError
    pressed,             \* the buttons pressed so far, in order
    today,               \* date.today() when the report was constructed
    mounted              \* WorkLogReport.on_mount has run

listVars == <<logs_only_active, logs_paging, feedLen, hasActive, feedChanges,
              initial_load_done, logs_reached_end, logs_offset, loading,
              children, scroll_y, workers, callbacks, epoch, accepted, last>>

calVars == <<day, _ranges, cal_mounted, cal_workers, cal_gen, cal_last,
             cal_held>>

appVars == <<app_day, app_ranges, app_mounted, app_workers, app_gen,
             app_last>>

\* The state of the other parts of the program.
cellVars == <<cell_ranges, merged_ranges, cell_state, cell_last>>

renderVars == <<drawn_ranges, output, render_last>>

loopVars == <<lines, turn, name_hash, placed>>

paintVars == <<drawn_width, renders, redrawn>>

ingestVars == <<record, now, stored, ingest_last>>

barVars == <<highlighted_ranges, max_width, bar, bar_last>>

reportVars == <<month_start, heading, shown_days, total_day, total_window,
                refresh_pending, report_raised, pressed, today, mounted>>

moreVars == <<paintVars, ingestVars, barVars, reportVars>>

restVars == <<cellVars, renderVars, loopVars, moreVars>>

vars == <<listVars, calVars, appVars, exited, restVars>>

Min(a, b) == IF a <= b THEN a ELSE b
Max(a, b) == IF a >= b THEN a ELSE b

\* ------------------------------------------------------------------- feed
\* The logs the list endpoint serves, most recent first; log 1 is the
\* active one when the server has an active log.
Feed == [i \in 1..feedLen |-> i]

\* api/log.py list_page: the logs offset+1 .. offset+limit of the feed.
list_page(offset, lim) == SubSeq(Feed, offset + 1, Min(offset + lim, feedLen))

\* api/log.py list_all: pages of page_limit from start_offset until an
\* empty page.
RECURSIVE list_all(_)
list_all(offset) ==
    LET logs == list_page(offset, page_limit)
    IN  IF Len(logs) = 0 THEN <<>> ELSE logs \o list_all(offset + Len(logs))

\* api/log.py get_active: the active log, or None.
get_active == IF hasActive THEN <<1>> ELSE <<>>

\* WorkLog.active of the widget built for a log.
active(id) == hasActive /\ id = 1

\* ------------------------------------------------------------ LogList
NoLast == [op |-> "init", at |-> 0, hit |-> FALSE]

\* LogList.__init__ and the class attributes: the state after construction.
ListConstructed ==
    /\ initial_load_done = FALSE
    /\ logs_reached_end = FALSE
    /\ logs_offset = 0
    /\ loading = TRUE
    /\ children = <<>>
    /\ scroll_y = 0
    /\ workers = <<>>
    /\ callbacks = <<>>
    /\ epoch = 0
    /\ accepted = <<>>
    /\ last = NoLast

InitList ==
    /\ logs_only_active \in {"None", "True", "False"}
    /\ logs_paging \in BOOLEAN
    /\ feedLen \in 0..MaxFeed
    /\ hasActive \in BOOLEAN
    /\ feedChanges = 0
    /\ ListConstructed

\* One LogList, for the specifications that are not about it: the list of
\* all logs with paging, of a server without logs.
InitOneList ==
    /\ logs_only_active = "None"
    /\ logs_paging = TRUE
    /\ feedLen = 0
    /\ hasActive = FALSE
    /\ feedChanges = 0
    /\ ListConstructed

\* The list of all logs with paging, of a server with any number of logs.
InitPagedList ==
    /\ logs_only_active = "None"
    /\ logs_paging = TRUE
    /\ feedLen \in 0..MaxFeed
    /\ hasActive = FALSE
    /\ feedChanges = 0
    /\ ListConstructed

\* Textual: rows the list can be scrolled by.
max_scroll_y == Max(0, Len(children) - ViewRows)

\* Faulty variant of scroll_y_edge: the edge is the bottom of the list.
scroll_y_bottom == max_scroll_y

\* LogList.scroll_y_edge
scroll_y_edge ==
    IF max_scroll_y > ScrollMargin THEN max_scroll_y - ScrollMargin
    ELSE max_scroll_y

\* @work(exclusive=True, group="load_more_logs"): calling load_more_logs
\* cancels the workers of the group and creates a new one, whose body has
\* not run yet.
NewWorker(e) == [pc |-> "created", epoch |-> e, offset |-> 0, req |-> 0]

\* Faulty variant of load_more_logs: a call is dropped while a worker is alive.
load_more_logs_suppressed(ws, e) == IF ws = <<>> THEN <<NewWorker(e)>> ELSE ws

load_more_logs(ws, e) == <<NewWorker(e)>>

RemoveAt(s, i) == SubSeq(s, 1, i - 1) \o SubSeq(s, i + 1, Len(s))

\* Faulty variant of IsStale: the offset check is missing.
IsStaleNever(at_offset) == FALSE

\* LogList._add_logs, line 88: a result whose captured offset is not the
\* current offset is ignored.
IsStale(at_offset) == at_offset # logs_offset

\* LogList._add_logs, lines 95-111: one widget per log, the active ones
\* filtered out when only_active is False.
Widgets(logs, e) ==
    LET all == [i \in 1..Len(logs) |-> [id |-> logs[i], epoch |-> e]]
        notActive(w) == ~active(w.id)
    IN  IF logs_only_active = "False" THEN SelectSeq(all, notActive) ELSE all

\* Faulty variant of Fetched: the page is always requested from offset 0.
FetchedFromStart(req) ==
    IF logs_only_active = "True"
    THEN [logs |-> get_active, reached_end |-> TRUE]
    ELSE IF ~logs_paging
         THEN [logs |-> list_all(0), reached_end |-> TRUE]
         ELSE LET logs == list_page(0, limit)
              IN  [logs |-> logs, reached_end |-> Len(logs) < limit]

\* Faulty variant of Fetched: a page of exactly limit logs counts as the last one.
FetchedEndInclusive(req) ==
    IF logs_only_active = "True"
    THEN [logs |-> get_active, reached_end |-> TRUE]
    ELSE IF ~logs_paging
         THEN [logs |-> list_all(0), reached_end |-> TRUE]
         ELSE LET logs == list_page(req, limit)
              IN  [logs |-> logs, reached_end |-> Len(logs) <= limit]

\* LogList.load_more_logs, lines 133-164: what the worker fetches for the
\* offset it requested, and the reached_end it reports.
Fetched(req) ==
    IF logs_only_active = "True"
    THEN [logs |-> get_active, reached_end |-> TRUE]
    ELSE IF ~logs_paging
         THEN [logs |-> list_all(0), reached_end |-> TRUE]
         ELSE LET logs == list_page(req, limit)
              IN  [logs |-> logs, reached_end |-> Len(logs) < limit]

CheckCallback ==
    [fn |-> "check_load_more_logs", at_offset |-> 0, reached_end |-> FALSE,
     logs |-> <<>>, epoch |-> 0]

listParams == <<logs_only_active, logs_paging, feedLen, hasActive,
                feedChanges>>

\* LogList.reload_logs
reload_logs ==
    /\ loading' = TRUE
    /\ initial_load_done' = TRUE
    /\ logs_reached_end' = FALSE
    /\ logs_offset' = 0
    /\ children' = <<>>
    /\ scroll_y' = 0
    /\ epoch' = epoch + 1
    /\ accepted' = <<>>
    /\ workers' = load_more_logs(workers, epoch + 1)
    /\ last' = [NoLast EXCEPT !.op = "reload_logs"]
    /\ UNCHANGED <<listParams, callbacks>>
    /\ UNCHANGED <<calVars, appVars, exited, restVars>>

\* LogList.on_show: the first show reloads.
on_show ==
    /\ epoch < MaxReloads
    /\ ~initial_load_done
    /\ reload_logs

\* MeTaskingTui.action_refresh (and every reload_all_logs callback):
\* reload_logs in whatever state the loader is.
action_refresh ==
    /\ epoch < MaxReloads
    /\ reload_logs

\* MeTaskingTui.action_more: a direct call of load_more_logs.
action_more ==
    /\ workers' = load_more_logs(workers, epoch)
    /\ last' = [NoLast EXCEPT !.op = "load_more_logs"]
    /\ UNCHANGED <<listParams, initial_load_done, logs_reached_end,
                   logs_offset, loading, children, scroll_y, callbacks,
                   epoch, accepted>>
    /\ UNCHANGED <<calVars, appVars, exited, restVars>>

\* Faulty variant of ReturnsAtOnce: the worker goes on when the end was
\* reached.
ReturnsNever == FALSE

\* LogList.load_more_logs, lines 127-131: the worker returns at once when
\* the end was reached.
ReturnsAtOnce == logs_reached_end

\* LogList.load_more_logs, lines 126-131 and the request of lines 135-162:
\* the body of a created worker runs up to its first await.
WorkerStart(i) ==
    /\ workers[i].pc = "created"
    /\ initial_load_done' = TRUE
    /\ IF ReturnsAtOnce
       THEN /\ workers' = RemoveAt(workers, i)
            /\ last' = [NoLast EXCEPT !.op = "worker_return"]
       ELSE /\ workers' = [workers EXCEPT ![i] =
                   [pc |-> "fetching", epoch |-> workers[i].epoch,
                    offset |-> logs_offset,
                    req |-> IF logs_only_active # "True" /\ logs_paging
                            THEN logs_offset ELSE 0]]
            /\ last' = [NoLast EXCEPT !.op = "request", !.at = logs_offset,
                                      !.hit = TRUE]
    /\ UNCHANGED <<listParams, logs_reached_end, logs_offset, loading,
                   children, scroll_y, callbacks, epoch, accepted>>
    /\ UNCHANGED <<calVars, appVars, exited, restVars>>

\* LogList.load_more_logs, lines 137-166: the response arrives and the
\* worker schedules _add_logs with the offset it captured.
WorkerDeliver(i) ==
    /\ workers[i].pc = "fetching"
    /\ Len(callbacks) < MaxCallbacks
    /\ LET r == Fetched(workers[i].req)
       IN  /\ callbacks' = Append(callbacks,
                  [fn |-> "_add_logs", at_offset |-> workers[i].offset,
                   reached_end |-> r.reached_end, logs |-> r.logs,
                   epoch |-> workers[i].epoch])
           /\ last' = [NoLast EXCEPT !.op = "deliver",
                                     !.at = workers[i].offset]
    /\ workers' = RemoveAt(workers, i)
    /\ UNCHANGED <<listParams, initial_load_done, logs_reached_end,
                   logs_offset, loading, children, scroll_y, epoch, accepted>>
    /\ UNCHANGED <<calVars, appVars, exited, restVars>>

\* Faulty variant of NewOffset: the offset advances by the widgets shown.
NewOffsetShown(logs) == logs_offset + Len(Widgets(logs, 0))

\* LogList._add_logs, line 92: the offset after the logs of an accepted
\* result.
NewOffset(logs) == logs_offset + Len(logs)

\* LogList._add_logs, run from the callback queue.
_add_logs ==
    /\ callbacks # <<>>
    /\ Head(callbacks).fn = "_add_logs"
    /\ LET cb == Head(callbacks)
       IN  /\ last' = [op |-> "_add_logs", at |-> cb.at_offset,
                       hit |-> ~IsStale(cb.at_offset)]
           /\ IF IsStale(cb.at_offset)
              THEN /\ callbacks' = Tail(callbacks)
                   /\ UNCHANGED <<logs_offset, logs_reached_end, children,
                                  accepted, loading>>
              ELSE /\ logs_offset' = NewOffset(cb.logs)
                   /\ logs_reached_end' = cb.reached_end
                   /\ children' = children \o Widgets(cb.logs, cb.epoch)
                   /\ accepted' = accepted \o cb.logs
                   /\ loading' = FALSE
                   /\ callbacks' = Append(Tail(callbacks), CheckCallback)
    /\ UNCHANGED <<listParams, initial_load_done, scroll_y, workers, epoch>>
    /\ UNCHANGED <<calVars, appVars, exited, restVars>>

\* LogList.check_load_more_logs, run from the callback queue.
check_load_more_logs ==
    /\ callbacks # <<>>
    /\ Head(callbacks).fn = "check_load_more_logs"
    /\ callbacks' = Tail(callbacks)
    /\ workers' = IF scroll_y > scroll_y_edge
                  THEN load_more_logs(workers, epoch) ELSE workers
    /\ last' = [NoLast EXCEPT !.op = "check_load_more_logs",
                              !.hit = (scroll_y > scroll_y_edge)]
    /\ UNCHANGED <<listParams, initial_load_done, logs_reached_end,
                   logs_offset, loading, children, scroll_y, epoch, accepted>>
    /\ UNCHANGED <<calVars, appVars, exited, restVars>>

\* LogList.watch_scroll_y: the user scrolls from scroll_y to new_value.
watch_scroll_y(new_value) ==
    /\ new_value # scroll_y
    /\ scroll_y' = new_value
    /\ workers' = IF scroll_y <= scroll_y_edge /\ new_value > scroll_y_edge
                  THEN load_more_logs(workers, epoch) ELSE workers
    /\ last' = [NoLast EXCEPT !.op = "watch_scroll_y",
                   !.hit = (scroll_y <= scroll_y_edge
                            /\ new_value > scroll_y_edge)]
    /\ UNCHANGED <<listParams, initial_load_done, logs_reached_end,
                   logs_offset, loading, children, callbacks, epoch, accepted>>
    /\ UNCHANGED <<calVars, appVars, exited, restVars>>

NextList ==
    \/ on_show
    \/ action_refresh
    \/ action_more
    \/ \E i \in 1..Len(workers) : WorkerStart(i)
    \/ \E i \in 1..Len(workers) : WorkerDeliver(i)
    \/ _add_logs
    \/ check_load_more_logs
    \/ \E new_value \in 0..max_scroll_y : watch_scroll_y(new_value)

\* A LogList left to itself after it is shown: no key is pressed and nothing
\* is scrolled; the event loop runs whatever is pending.
NextAuto ==
    \/ on_show
    \/ \E i \in 1..Len(workers) : WorkerStart(i)
    \/ \E i \in 1..Len(workers) : WorkerDeliver(i)
    \/ _add_logs
    \/ check_load_more_logs

\* The server's logs change (api/log.py start, delete, split, merge, by this
\* client or another one): the list endpoint serves n logs from now on.
FeedChange(n) ==
    /\ feedChanges < MaxFeedChanges
    /\ n # feedLen
    /\ feedLen' = n
    /\ feedChanges' = feedChanges + 1
    /\ UNCHANGED <<logs_only_active, logs_paging, hasActive,
                   initial_load_done, logs_reached_end, logs_offset, loading,
                   children, scroll_y, workers, callbacks, epoch, accepted,
                   last>>
    /\ UNCHANGED <<calVars, appVars, exited, restVars>>

\* A LogList whose feed changes under it.
NextFeed ==
    \/ NextList
    \/ \E n \in 0..MaxFeed : FeedChange(n)

\* LogList.load_more_logs, lines 135-164: the awaited request raises
\* (handle_response raises for a response that is not 2xx, aiohttp for a
\* server that cannot be reached).  Nothing catches it in load_more_logs, so
\* the worker ends without scheduling _add_logs; the @work decorator of line
\* 124 leaves exit_on_error at its default, so the failed worker stops the app.
WorkerFail(i) ==
    /\ workers[i].pc = "fetching"
    /\ workers' = RemoveAt(workers, i)
    /\ last' = [NoLast EXCEPT !.op = "worker_error", !.at = workers[i].offset]
    /\ exited' = TRUE
    /\ UNCHANGED <<listParams, initial_load_done, logs_reached_end,
                   logs_offset, loading, children, scroll_y, callbacks, epoch,
                   accepted>>
    /\ UNCHANGED <<calVars, appVars, restVars>>

\* What a running app can do with its LogList.
ListRuns == ~exited /\ NextList

\* A LogList whose requests can fail.
NextListFail ==
    \/ ListRuns
    \/ ~exited /\ \E i \in 1..Len(workers) : WorkerFail(i)

\* ------------------------------------------- WorkLogCalendarDay, calendar.py
\* The logs the server holds for day d, each with one record in the day.
DayLogs(d) == [i \in 1..Min(d, MaxDayLogs) |-> i]

\* list_page(since, until, offset, limit) for the day d.
day_page(d, offset, lim) ==
    SubSeq(DayLogs(d), offset + 1, Min(offset + lim, Len(DayLogs(d))))

\* _refresh_data, lines 397-420: the ranges of the records of a page of
\* logs, fetched for day d by a worker created in generation g.
RangesOf(logs, d, g) ==
    [i \in 1..Len(logs) |-> [day |-> d, idx |-> logs[i], gen |-> g]]

\* Nothing is held from before a refresh_data call.
NotHeld == [valid |-> FALSE, ranges |-> <<>>]

InitCal ==
    /\ day = 0
    /\ _ranges = <<>>
    /\ cal_mounted = FALSE
    /\ cal_workers = <<>>
    /\ cal_gen = 0
    /\ cal_last = "init"
    /\ cal_held = NotHeld

NewCalWorker(g) ==
    [pc |-> "created", gen |-> g, day |-> 0, offset |-> 0, ranges |-> <<>>]

\* @work(exclusive=True, group="calendar_refresh_data"): calling
\* _refresh_data cancels the workers of the group and creates a new one.
_refresh_data(ws, g) == <<NewCalWorker(g)>>

\* WorkLogCalendarDay.on_mount
cal_on_mount ==
    /\ ~cal_mounted
    /\ cal_mounted' = TRUE
    /\ cal_workers' = _refresh_data(cal_workers, cal_gen)
    /\ cal_last' = "on_mount"
    /\ UNCHANGED <<day, _ranges, cal_gen, cal_held>>
    /\ UNCHANGED <<listVars, appVars, exited, restVars>>

\* WorkLogCalendarDay.watch_day: the calendar sets another day.
watch_day(new_value) ==
    /\ cal_gen < MaxResets
    /\ new_value # day
    /\ day' = new_value
    /\ _ranges' = <<>>
    /\ cal_gen' = cal_gen + 1
    /\ cal_workers' = _refresh_data(cal_workers, cal_gen + 1)
    /\ cal_last' = "watch_day"
    /\ cal_held' = NotHeld
    /\ UNCHANGED cal_mounted
    /\ UNCHANGED <<listVars, appVars, exited, restVars>>

\* WorkLogCalendarDay.refresh_data
refresh_data ==
    /\ cal_gen < MaxResets
    /\ _ranges' = <<>>
    /\ cal_gen' = cal_gen + 1
    /\ cal_workers' = _refresh_data(cal_workers, cal_gen + 1)
    /\ cal_last' = "refresh_data"
    /\ cal_held' = [valid |-> TRUE, ranges |-> _ranges]
    /\ UNCHANGED <<day, cal_mounted>>
    /\ UNCHANGED <<listVars, appVars, exited, restVars>>

\* _refresh_data, lines 383-395: the body runs up to the first page request.
CalWorkerStart(i) ==
    /\ cal_workers[i].pc = "created"
    /\ cal_workers' =
           IF day = 0 THEN RemoveAt(cal_workers, i)
           ELSE [cal_workers EXCEPT ![i].pc = "fetching", ![i].day = day]
    /\ cal_last' = "worker_start"
    /\ UNCHANGED <<day, _ranges, cal_mounted, cal_gen, cal_held>>
    /\ UNCHANGED <<listVars, appVars, exited, restVars>>

\* _refresh_data, lines 391-425: a page of list_all(page_limit=20) arrives.
\* The worker stores the ranges it has so far into self._ranges after each
\* log of the page, and once more when the pages are exhausted.
CalWorkerPage(i) ==
    /\ cal_workers[i].pc = "fetching"
    /\ LET w == cal_workers[i]
           logs == day_page(w.day, w.offset, cal_page_limit)
           ranges == w.ranges \o RangesOf(logs, w.day, w.gen)
       IN  /\ _ranges' = ranges
           /\ cal_workers' =
                  IF Len(logs) = 0 THEN RemoveAt(cal_workers, i)
                  ELSE [cal_workers EXCEPT ![i].ranges = ranges,
                                           ![i].offset = w.offset + Len(logs)]
    /\ cal_last' = "worker_page"
    /\ UNCHANGED <<day, cal_mounted, cal_gen, cal_held>>
    /\ UNCHANGED <<listVars, appVars, exited, restVars>>

NextCal ==
    \/ cal_on_mount
    \/ \E d \in 1..NumDays : watch_day(d)
    \/ refresh_data
    \/ \E i \in 1..Len(cal_workers) : CalWorkerStart(i)
    \/ \E i \in 1..Len(cal_workers) : CalWorkerPage(i)

\* _refresh_data, lines 391-396: the request of a page raises inside
\* list_all.  Nothing catches it, the worker ends where it is, and with
\* exit_on_error at its default (line 381) the failed worker stops the app.
CalWorkerFail(i) ==
    /\ cal_workers[i].pc = "fetching"
    /\ cal_workers' = RemoveAt(cal_workers, i)
    /\ cal_last' = "worker_error"
    /\ exited' = TRUE
    /\ UNCHANGED <<day, _ranges, cal_mounted, cal_gen, cal_held>>
    /\ UNCHANGED <<listVars, appVars, restVars>>

\* A day column whose requests can fail.
NextCalFail ==
    \/ ~exited /\ NextCal
    \/ ~exited /\ \E i \in 1..Len(cal_workers) : CalWorkerFail(i)

\* ------------------------------------------------ WorkLogCalendarDay, app.py
AppConstructed ==
    /\ app_ranges = <<>>
    /\ app_mounted = FALSE
    /\ app_workers = <<>>
    /\ app_gen = 0
    /\ app_last = "init"

InitApp ==
    /\ app_day \in 1..NumDays
    /\ AppConstructed

InitOneApp ==
    /\ app_day = 1
    /\ AppConstructed

\* @work(thread=True): calling refresh_data starts one more thread worker;
\* the running ones are left alone.
app_refresh_data(ws, g) == Append(ws, NewCalWorker(g))

\* app.py WorkLogCalendarDay.on_mount
app_on_mount ==
    /\ ~app_mounted
    /\ Len(app_workers) < MaxThreads
    /\ app_mounted' = TRUE
    /\ app_workers' = app_refresh_data(app_workers, app_gen)
    /\ app_last' = "on_mount"
    /\ UNCHANGED <<app_day, app_ranges, app_gen>>
    /\ UNCHANGED <<listVars, calVars, exited, restVars>>

\* app.py WorkLogCalendarDay.watch_day
app_watch_day(new_value) ==
    /\ app_gen < MaxResets
    /\ Len(app_workers) < MaxThreads
    /\ new_value # app_day
    /\ app_day' = new_value
    /\ app_ranges' = <<>>
    /\ app_gen' = app_gen + 1
    /\ app_workers' = app_refresh_data(app_workers, app_gen + 1)
    /\ app_last' = "watch_day"
    /\ UNCHANGED app_mounted
    /\ UNCHANGED <<listVars, calVars, exited, restVars>>

\* app.py WorkLogCalendar.refresh_data (from action_refresh): the column's
\* refresh_data worker is started; the ranges are not cleared.
app_calendar_refresh ==
    /\ Len(app_workers) < MaxThreads
    /\ app_workers' = app_refresh_data(app_workers, app_gen)
    /\ app_last' = "refresh_data"
    /\ UNCHANGED <<app_day, app_ranges, app_mounted, app_gen>>
    /\ UNCHANGED <<listVars, calVars, exited, restVars>>

\* app.py refresh_data, lines 1313-1326: the thread reads self.day and sends
\* its first request.
AppThreadStart(i) ==
    /\ app_workers[i].pc = "created"
    /\ app_workers' = [app_workers EXCEPT ![i].pc = "fetching",
                                          ![i].day = app_day]
    /\ app_last' = "worker_start"
    /\ UNCHANGED <<app_day, app_ranges, app_mounted, app_gen>>
    /\ UNCHANGED <<listVars, calVars, exited, restVars>>

\* app.py refresh_data, lines 1319-1350: a page (limit=100) arrives; after
\* the empty page the thread stores its ranges into self._ranges.
AppThreadPage(i) ==
    /\ app_workers[i].pc = "fetching"
    /\ LET w == app_workers[i]
           logs == day_page(w.day, w.offset, app_page_limit)
       IN  IF Len(logs) = 0
           THEN /\ app_ranges' = w.ranges
                /\ app_workers' = RemoveAt(app_workers, i)
           ELSE /\ app_workers' =
                    [app_workers EXCEPT
                       ![i].ranges = w.ranges \o RangesOf(logs, w.day, w.gen),
                       ![i].offset = w.offset + Len(logs)]
                /\ UNCHANGED app_ranges
    /\ app_last' = "worker_page"
    /\ UNCHANGED <<app_day, app_mounted, app_gen>>
    /\ UNCHANGED <<listVars, calVars, exited, restVars>>

NextApp ==
    \/ app_on_mount
    \/ \E d \in 1..NumDays : app_watch_day(d)
    \/ app_calendar_refresh
    \/ \E i \in 1..Len(app_workers) : AppThreadStart(i)
    \/ \E i \in 1..Len(app_workers) : AppThreadPage(i)

\* ------------------------------------- _merge_ranges, WLCalCS (calendar.py)
\* A position in a cell is a fraction of the cell; the model counts it in
\* 1/Unit of a cell, so that 1/16 is Fine and 1 is Unit.
Unit == 16 * Fine

DARK_BACKGROUND_FALLBACK == "grey27"

DARK_BACKGROUND_OPTIONS == <<"rgb(0,45,112)", "rgb(22,90,90)">>

Range(start, end, color) == [start |-> start, end |-> end, color |-> color]

\* sorted(ranges, key=lambda r: r[0]): a stable sort by start.
RECURSIVE sorted(_)
sorted(rs) ==
    IF rs = <<>> THEN <<>>
    ELSE LET x == rs[Len(rs)]
             before == sorted(SubSeq(rs, 1, Len(rs) - 1))
             n == Cardinality({i \in 1..Len(before) :
                                   before[i].start <= x.start})
         IN  SubSeq(before, 1, n) \o <<x>> \o SubSeq(before, n + 1, Len(before))

\* Faulty variant of Overlaps: touching ranges are kept apart.
OverlapsStrictly(next_start, end) == next_start < end

\* _merge_ranges, line 59: the next range starts inside the current one.
Overlaps(next_start, end) == next_start <= end

\* _merge_ranges, lines 61-62: the colour of two ranges merged into one.
MergedColor(color, next_color) ==
    IF color # next_color THEN DARK_BACKGROUND_FALLBACK ELSE color

\* _merge_ranges, lines 57-65: the inner loop, which swallows the ranges
\* from index i on that start inside the current range.
RECURSIVE MergeInner(_, _, _, _)
MergeInner(rs, i, end, color) ==
    IF i > Len(rs) THEN [rs |-> rs, end |-> end, color |-> color]
    ELSE IF Overlaps(rs[i].start, end)
         THEN MergeInner(RemoveAt(rs, i), i, Max(end, rs[i].end),
                         MergedColor(color, rs[i].color))
         ELSE [rs |-> rs, end |-> end, color |-> color]

\* _merge_ranges, lines 51-67: the outer loop.
RECURSIVE MergeOuter(_, _, _)
MergeOuter(rs, i, merged) ==
    IF i > Len(rs) THEN merged
    ELSE LET r == MergeInner(rs, i + 1, rs[i].end, rs[i].color)
         IN  MergeOuter(r.rs, i + 1,
                        Append(merged, Range(rs[i].start, r.end, r.color)))

\* Faulty variant of SortedCopy: the list is taken as it comes.
Unsorted(rs) == rs

\* _merge_ranges, line 49.
SortedCopy(rs) == sorted(rs)

\* calendar.py _merge_ranges
_merge_ranges(rs) ==
    IF Len(rs) = 0 THEN <<>> ELSE MergeOuter(SortedCopy(rs), 1, <<>>)

\* _merge_ranges, line 49: sorted() builds a new list, and the pops of line
\* 63 act on it; the caller's list is what it was.
CallerList(rs) == rs

\* The states of WLCalCS.
EMPTY == [kind |-> "EMPTY", k |-> 0]
FULL == [kind |-> "FULL", k |-> 0]
END(k) == [kind |-> "END", k |-> k]
START(k) == [kind |-> "START", k |-> k]
MIDDLE == [kind |-> "MIDDLE", k |-> 0]
FUZZY == [kind |-> "FUZZY", k |-> 0]

WLCalCS ==
    {EMPTY, FULL, MIDDLE, FUZZY} \cup {END(k) : k \in 1..7}
        \cup {START(k) : k \in 1..7}

\* WLCalCS.range_position, in 1/Unit of a cell.
range_position(self) ==
    CASE self.kind = "EMPTY" -> 0
      [] self.kind = "FULL" -> Unit
      [] self.kind = "END" -> (self.k * Unit) \div 8
      [] self.kind = "START" -> ((8 - self.k) * Unit) \div 8
      [] self.kind = "MIDDLE" -> Unit \div 2
      [] self.kind = "FUZZY" -> Unit \div 2

\* from_ranges, line 148: half_step = 1/16
half_step == Unit \div 16

\* Faulty variant of ReachesEnd: the tolerance is added, not subtracted.
ReachesEndLate(end, k) == end >= range_position(END(k)) + half_step

\* from_ranges, lines 155-168: the test of END_k.
ReachesEnd(end, k) == end >= range_position(END(k)) - half_step

\* from_ranges, lines 155-169: END_7 down to END_1, the first that the end
\* reaches, else EMPTY.
RECURSIVE ScanEnd(_, _)
ScanEnd(end, k) ==
    IF k = 0 THEN EMPTY
    ELSE IF ReachesEnd(end, k) THEN END(k) ELSE ScanEnd(end, k - 1)

\* from_ranges, lines 172-186: START_7 down to START_1, the first whose
\* position the start is before, else EMPTY.
RECURSIVE ScanStart(_, _)
ScanStart(start, k) ==
    IF k = 0 THEN EMPTY
    ELSE IF start < range_position(START(k)) + half_step THEN START(k)
         ELSE ScanStart(start, k - 1)

\* Faulty variant of IsMiddle: any range strictly inside the cell.
IsMiddleAlways(start, end) == start >= half_step /\ end < Unit - half_step

\* from_ranges, lines 188-191: the test of MIDDLE.
IsMiddle(start, end) ==
    /\ start >= half_step
    /\ start < range_position(START(4)) + half_step
    /\ end >= range_position(END(4)) - half_step
    /\ end < Unit - half_step

\* Faulty variant of IsFull: only the range of the whole cell is full.
IsFullExact(start, end) == start = 0 /\ end = Unit

\* from_ranges, line 151: the test of FULL.
IsFull(start, end) == start < half_step /\ end >= Unit - half_step

\* Faulty variant of Several: a cell of several ranges is taken by its first.
SeveralNever(rs) == FALSE

\* from_ranges, line 145: more than one range is left after merging.
Several(rs) == Len(rs) # 1

\* WLCalCS.from_ranges
from_ranges(rs) ==
    LET m == _merge_ranges(rs)
    IN  IF Len(m) = 0
        THEN [state |-> EMPTY, color |-> DARK_BACKGROUND_FALLBACK]
        ELSE IF Several(m)
        THEN [state |-> FUZZY, color |-> DARK_BACKGROUND_FALLBACK]
        ELSE LET start == m[1].start
                 end == m[1].end
                 color == m[1].color
             IN  IF IsFull(start, end)
                 THEN [state |-> FULL, color |-> color]
                 ELSE IF start < half_step
                 THEN [state |-> ScanEnd(end, 7), color |-> color]
                 ELSE IF end >= Unit - half_step
                 THEN [state |-> ScanStart(start, 7), color |-> color]
                 ELSE IF IsMiddle(start, end)
                 THEN [state |-> MIDDLE, color |-> color]
                 ELSE [state |-> FUZZY, color |-> color]

\* The lists given to the two functions: one range anywhere on the grid of
\* the cell, or up to MaxMerge ranges between quarters of the cell, each with
\* start <= end.
GridRanges ==
    {Range(a, b, c) : a \in 0..Unit, b \in 0..Unit,
                      c \in {DARK_BACKGROUND_OPTIONS[1]}}

QuarterRanges ==
    {Range((a * Unit) \div 4, (b * Unit) \div 4, DARK_BACKGROUND_OPTIONS[c]) :
         a \in 0..4, b \in 0..4, c \in 1..2}

ValidRange(r) == r.start <= r.end

RangeLists ==
    {<<r>> : r \in {x \in GridRanges : ValidRange(x)}}
        \cup UNION {[1..n -> {x \in QuarterRanges : ValidRange(x)}] :
                        n \in 0..MaxMerge}

NoState == [state |-> EMPTY, color |-> ""]

CellIdle ==
    /\ cell_ranges = <<>>
    /\ merged_ranges = <<>>
    /\ cell_state = NoState
    /\ cell_last = "input"

InitCell ==
    /\ cell_ranges \in RangeLists
    /\ merged_ranges = <<>>
    /\ cell_state = NoState
    /\ cell_last = "input"

\* A call of _merge_ranges(ranges).
CallMerge ==
    /\ cell_last = "input"
    /\ merged_ranges' = _merge_ranges(cell_ranges)
    /\ cell_ranges' = CallerList(cell_ranges)
    /\ cell_last' = "_merge_ranges"
    /\ UNCHANGED cell_state
    /\ UNCHANGED <<listVars, calVars, appVars, exited, renderVars, loopVars,
                   moreVars>>

\* A call of WLCalCS.from_ranges(ranges).
CallFromRanges ==
    /\ cell_last = "input"
    /\ cell_state' = from_ranges(cell_ranges)
    /\ cell_ranges' = CallerList(cell_ranges)
    /\ cell_last' = "from_ranges"
    /\ UNCHANGED merged_ranges
    /\ UNCHANGED <<listVars, calVars, appVars, exited, renderVars, loopVars,
                   moreVars>>

NextCell ==
    \/ CallMerge
    \/ CallFromRanges

\* ------------------------------------------ WorkLogCalendarDay.render
\* A position in the day (an entry of _ranges) is in units of 1/DayUnit of
\* the day, and a position among the rows (rstart, rend) in units of
\* 1/DayUnit of a row, so that a row is divided as finely as a cell.
DayUnit == CALENDAR_HEIGHT * Unit

Named(start, end, name) == [start |-> start, end |-> end, name |-> name]

\* The names of the ranges, f"{log['name']}: {description}", and len(name).
Names == {"a: ", "b: xy"}

len(name) == IF name = "a: " THEN 3 ELSE 5

None == "<None>"

\* math.ceil(x), int(x) and x % 1 of a position among the rows; the last in
\* 1/Unit of a row, as from_ranges takes it.
\* Faulty variant of ceil: the value is rounded down.
floored(x) == x \div DayUnit

ceil(x) == -((-x) \div DayUnit)

int(x) == IF x >= 0 THEN x \div DayUnit ELSE -((-x) \div DayUnit)

mod1(x) == (x % DayUnit) \div CALENDAR_HEIGHT

\* Faulty variant of Clamped: the position is taken as it comes.
Unclamped(x, height) == x

\* render, lines 300-301: min(max(x, 0), height)
Clamped(x, height) == Min(Max(x, 0), height)

\* Indexing a list of CALENDAR_HEIGHT entries with i: an i from -height on
\* is in the list (a negative i counts from its end), any other raises
\* IndexError.  Slot is the entry, counted from 1.
InList(i) == -CALENDAR_HEIGHT <= i /\ i < CALENDAR_HEIGHT

Slot(i) == (IF i < 0 THEN i + CALENDAR_HEIGHT ELSE i) + 1

\* Faulty variant of FreeRow: the label goes to the row the range starts at.
NoSearch(lines_texts, tstart) == tstart

\* Faulty variant of FreeRow: past the last row the search goes on from
\* the first.
SearchAround(lines_texts, tstart) ==
    LET free(from) == {i \in from..(CALENDAR_HEIGHT - 1) :
                           lines_texts[i + 1].name = None}
        first(s) == CHOOSE i \in s : \A j \in s : i <= j
    IN  IF tstart >= CALENDAR_HEIGHT THEN tstart
        ELSE IF free(tstart) # {} THEN first(free(tstart))
        ELSE IF free(0) # {} THEN first(free(0))
        ELSE CALENDAR_HEIGHT

\* render, lines 306-314: the first row from tstart on that has no label
\* yet; CALENDAR_HEIGHT when there is none.
RECURSIVE FreeRow(_, _)
FreeRow(lines_texts, tstart) ==
    IF tstart >= CALENDAR_HEIGHT \/ ~InList(tstart) THEN tstart
    ELSE IF lines_texts[Slot(tstart)].name = None THEN tstart
         ELSE FreeRow(lines_texts, tstart + 1)

\* render, lines 287-294: the two lists before the ranges are drawn.
Blank ==
    [lines_ranges |-> [i \in 1..CALENDAR_HEIGHT |-> <<>>],
     lines_texts |-> [i \in 1..CALENDAR_HEIGHT |->
                          [moved |-> FALSE, name |-> None, color |-> ""]],
     indexed |-> {},
     raised |-> FALSE]

\* render, lines 300-335: one turn of the loop over _ranges.  indexed
\* collects every index the turn uses on the two lists.
DrawRange(st, r, color) ==
    LET height == CALENDAR_HEIGHT * DayUnit
        rstart == Clamped(r.start * CALENDAR_HEIGHT, height)
        rend == Clamped(r.end * CALENDAR_HEIGHT, height)
        istart == ceil(rstart)
        iend == int(rend)
        tstart == FreeRow(st.lines_texts, istart)
        walked == istart..Min(tstart, CALENDAR_HEIGHT - 1)
        has_start == rstart % DayUnit # 0
        has_end == rend % DayUnit # 0
        same == has_start /\ has_end /\ int(rstart) = int(rend)
        partial ==
            IF same
            THEN <<[row |-> int(rstart),
                    range |-> Range(mod1(rstart), mod1(rend), color)]>>
            ELSE (IF has_start
                  THEN <<[row |-> int(rstart),
                          range |-> Range(mod1(rstart), Unit, color)]>>
                  ELSE <<>>)
                 \o (IF has_end
                     THEN <<[row |-> int(rend),
                             range |-> Range(0, mod1(rend), color)]>>
                     ELSE <<>>)
        whole == IF same THEN {} ELSE istart..(iend - 1)
        touched == walked \cup {partial[j].row : j \in 1..Len(partial)}
                       \cup whole
        Added(j) ==
            LET mine == SelectSeq(partial, LAMBDA p : Slot(p.row) = j)
                n == (IF (j - 1) \in whole THEN 1 ELSE 0)
                       + (IF (j - 1 - CALENDAR_HEIGHT) \in whole
                          THEN 1 ELSE 0)
            IN  [k \in 1..Len(mine) |-> mine[k].range]
                    \o [k \in 1..n |-> Range(0, Unit, color)]
    IN  IF \E i \in touched : ~InList(i)
        THEN [st EXCEPT !.raised = TRUE, !.indexed = @ \cup touched]
        ELSE [lines_ranges |-> [j \in 1..CALENDAR_HEIGHT |->
                                    st.lines_ranges[j] \o Added(j)],
              lines_texts |->
                  IF tstart < CALENDAR_HEIGHT
                  THEN [st.lines_texts EXCEPT ![Slot(tstart)] =
                            [moved |-> tstart > istart, name |-> r.name,
                             color |-> color]]
                  ELSE st.lines_texts,
              indexed |-> st.indexed \cup touched,
              raised |-> FALSE]

\* render, lines 296-335: the loop over _ranges; hash is Python's hash of
\* the names in this process.
RECURSIVE DrawRanges(_, _, _, _)
DrawRanges(st, rs, i, hash) ==
    IF i > Len(rs) \/ st.raised THEN st
    ELSE LET color_index == hash[rs[i].name] % Len(DARK_BACKGROUND_OPTIONS)
             color == DARK_BACKGROUND_OPTIONS[color_index + 1]
         IN  DrawRanges(DrawRange(st, rs[i], color), rs, i + 1, hash)

\* WLCalCS.as_text: the glyph of a state and its style.
as_text(self, color) ==
    LET reverse == self.kind = "END" /\ self.k \in {2, 3, 5, 6, 7}
        glyph ==
            CASE self.kind = "EMPTY" -> "space"
              [] self.kind = "FULL" -> "full block"
              [] self.kind = "END" ->
                     <<"upper one eighth block", "lower one quarter block",
                       "lower half block", "upper half block",
                       "lower five eighths block",
                       "lower three quarters block",
                       "lower seven eighths block">>[self.k]
              [] self.kind = "START" ->
                     <<"lower one eighth block", "lower one quarter block",
                       "lower three eighths block", "lower half block",
                       "lower five eighths block",
                       "lower three quarters block",
                       "lower seven eighths block">>[self.k]
              [] self.kind = "MIDDLE" -> "heavy horizontal"
              [] self.kind = "FUZZY" -> "light shade"
    IN  [glyph |-> glyph, color |-> color, reverse |-> reverse]

\* calendar.py: the rows that start a full hour.
FULL_HOUR_MARKERS == {(i * CALENDAR_HEIGHT) \div 24 : i \in 0..23}

\* lname[:k], as a number of characters.
Sliced(name, k) == IF k >= 0 THEN Min(k, len(name)) ELSE Max(len(name) + k, 0)

\* render, lines 340-372: row i of the output.
Row(st, i, width) ==
    LET cell == from_ranges(st.lines_ranges[i + 1])
        style == IF cell.state = FULL THEN <<"on", cell.color>> ELSE <<>>
        text == st.lines_texts[i + 1]
        rname == Sliced(text.name, width - 3) + 1
    IN  [cell |-> as_text(cell.state, cell.color),
         style |-> style,
         label |->
             IF text.name # None
             THEN [space |-> IF text.moved THEN "^" ELSE "=",
                   prefix_style |-> <<"on", text.color>>,
                   name |-> text.name,
                   rname |-> rname,
                   fill |-> Max(width - 2 - rname, 0)]
             ELSE [space |-> IF i \in FULL_HOUR_MARKERS THEN "rule" ELSE " ",
                   prefix_style |-> <<>>,
                   name |-> None,
                   rname |-> 0,
                   fill |-> Max(width - 1, 0)]]

\* WorkLogCalendarDay.render: the rows of the output, the indices used on
\* the two lists, and whether an IndexError was raised on the way.
render(rs, hash, width) ==
    LET st == DrawRanges(Blank, rs, 1, hash)
    IN  IF st.raised
        THEN [raised |-> TRUE, indexed |-> st.indexed, rows |-> <<>>]
        ELSE [raised |-> FALSE,
              indexed |-> st.indexed \cup (0..(CALENDAR_HEIGHT - 1)),
              rows |-> [i \in 1..CALENDAR_HEIGHT |-> Row(st, i - 1, width)]]

\* The contents of _ranges that are drawn: one range between any two
\* half-rows within EdgeRows rows of either end of the day (a row before
\* the day and a row after it included), or up to MaxDrawn ranges between
\* two of a point before the day, one in the last row and one after the
\* day.  A range may end before it starts.
EdgePoints ==
    {k * (Unit \div 2) : k \in (-2..(2 * EdgeRows))
         \cup ((2 * (CALENDAR_HEIGHT - EdgeRows))..(2 * CALENDAR_HEIGHT + 2))}

CornerPoints ==
    {-(Unit \div 2), DayUnit - (Unit \div 2), DayUnit + (Unit \div 2)}

CornerRanges ==
    {r \in {Named(a, b, name) : a \in CornerPoints, b \in CornerPoints,
                                name \in Names} : r.start # r.end}

DrawnLists ==
    {<<Named(a, b, "a: ")>> : a \in EdgePoints, b \in EdgePoints}
        \cup UNION {[1..n -> CornerRanges] : n \in 0..MaxDrawn}

\* The widths of the column: not laid out yet, or laid out.
Widths == {0, ColumnWidth}

NoOutput == [raised |-> FALSE, indexed |-> {}, rows |-> <<>>]

RenderIdle ==
    /\ drawn_ranges = <<>>
    /\ output = NoOutput
    /\ render_last = "input"

InitDrawn ==
    /\ drawn_ranges \in DrawnLists
    /\ output = NoOutput
    /\ render_last = "input"

\* A call of render().
Render ==
    /\ render_last = "input"
    /\ \E hash \in [Names -> 0..(Len(DARK_BACKGROUND_OPTIONS) - 1)],
          width \in Widths :
           output' = render(drawn_ranges, hash, width)
    /\ render_last' = "render"
    /\ UNCHANGED drawn_ranges
    /\ UNCHANGED <<listVars, calVars, appVars, exited, cellVars, loopVars,
                   moreVars>>

NextRender == Render

\* ------------------------------- WorkLogCalendarDay.render, turn by turn
\* The loop of render over _ranges, one turn at a time, and the output of
\* the rows after it.

\* The contents of _ranges drawn turn by turn: one range between any two of
\* a point before the day, the start of row 10, three points inside it, the
\* start of rows 11, 50 and 51, the start and the middle of the last row,
\* the end of the day and a point after it; or up to MaxLabels ranges that
\* start at row 10, in row 10 or at the last row and are empty or end at
\* row 51.
LoopPoints ==
    {-(Unit \div 2), 10 * Unit, 10 * Unit + Unit \div 4,
     10 * Unit + Unit \div 2, 10 * Unit + (3 * Unit) \div 4, 11 * Unit,
     50 * Unit, 51 * Unit, DayUnit - Unit, DayUnit - Unit \div 2, DayUnit,
     DayUnit + Unit \div 2}

LabelStarts == {10 * Unit, 10 * Unit + Unit \div 2, DayUnit - Unit}

LabelRanges ==
    {Named(a, a, name) : a \in LabelStarts, name \in Names}
        \cup {Named(a, 51 * Unit, name) : a \in LabelStarts, name \in Names}

LoopLists ==
    {<<Named(a, b, "a: ")>> : a \in LoopPoints, b \in LoopPoints}
        \cup UNION {[1..n -> LabelRanges] : n \in 0..MaxLabels}

HashOfNames == [Names -> 0..(Len(DARK_BACKGROUND_OPTIONS) - 1)]

LoopIdle ==
    /\ lines = Blank
    /\ turn = 0
    /\ name_hash = [name \in Names |-> 0]
    /\ placed = <<>>

InitLoop ==
    /\ drawn_ranges \in LoopLists
    /\ output = NoOutput
    /\ render_last = "input"
    /\ lines = Blank
    /\ turn = 0
    /\ name_hash \in HashOfNames
    /\ placed = <<>>

\* render, lines 296-298: the colour of a range.
ColorOf(name) ==
    DARK_BACKGROUND_OPTIONS[(name_hash[name] % Len(DARK_BACKGROUND_OPTIONS)) + 1]

\* render, lines 296-335: one turn of the loop.
DrawNext ==
    /\ render_last = "input"
    /\ turn < Len(drawn_ranges)
    /\ ~lines.raised
    /\ lines' = DrawRange(lines, drawn_ranges[turn + 1],
                          ColorOf(drawn_ranges[turn + 1].name))
    /\ turn' = turn + 1
    /\ placed' = Append(placed,
                        {i \in 0..(CALENDAR_HEIGHT - 1) :
                             lines'.lines_texts[i + 1]
                                 # lines.lines_texts[i + 1]})
    /\ UNCHANGED <<drawn_ranges, output, render_last, name_hash>>
    /\ UNCHANGED <<listVars, calVars, appVars, exited, cellVars, moreVars>>

\* render, lines 337-374: the rows of the output, after the loop.
EmitRows ==
    /\ render_last = "input"
    /\ turn = Len(drawn_ranges) \/ lines.raised
    /\ \E width \in Widths :
           output' =
               IF lines.raised
               THEN [raised |-> TRUE, indexed |-> lines.indexed,
                     rows |-> <<>>]
               ELSE [raised |-> FALSE,
                     indexed |-> lines.indexed
                                     \cup (0..(CALENDAR_HEIGHT - 1)),
                     rows |-> [i \in 1..CALENDAR_HEIGHT |->
                                   Row(lines, i - 1, width)]]
    /\ render_last' = "render"
    /\ UNCHANGED <<drawn_ranges, lines, turn, name_hash, placed>>
    /\ UNCHANGED <<listVars, calVars, appVars, exited, cellVars, moreVars>>

NextLoop ==
    \/ DrawNext
    \/ EmitRows

\* --------------------------------- WorkLogCalendarDay: render of a column
\* The column of calendar.py is drawn while its loader runs.

\* _refresh_data, lines 413-420: the tuples behind the entries of _ranges.
\* The record of log idx starts inside row 10 * idx and ends at row 51.
DrawnOf(rs) ==
    [i \in 1..Len(rs) |->
         Named(10 * rs[i].idx * Unit + Unit \div 2, 51 * Unit,
               IF rs[i].idx % 2 = 1 THEN "a: " ELSE "b: xy")]

PaintIdle ==
    /\ drawn_width = 0
    /\ renders = 0
    /\ redrawn = "none"

\* Faulty variant of ProcessHash: the hash of a name changes from call to
\* call.
HashPerCall == [name \in Names |-> name_hash[name] + renders]

\* render, line 297: hash(name) is the same for every call in the process.
ProcessHash == name_hash

\* A call of render() with the column width wide.
Redraw(width) ==
    /\ renders < MaxRenders
    /\ LET rs == DrawnOf(_ranges)
           out == render(rs, ProcessHash, width)
       IN  /\ output' = out
           /\ drawn_ranges' = rs
           /\ redrawn' =
                  IF render_last = "render" /\ drawn_ranges = rs
                         /\ drawn_width = width
                  THEN IF redrawn # "changed" /\ out = output
                       THEN "same" ELSE "changed"
                  ELSE redrawn
    /\ drawn_width' = width
    /\ render_last' = "render"
    /\ renders' = renders + 1
    /\ UNCHANGED <<listVars, calVars, appVars, exited, cellVars, loopVars,
                   ingestVars, barVars, reportVars>>

NextRedraw ==
    \/ NextCal
    \/ \E width \in Widths : Redraw(width)

\* ------------------------------------- the ranges of a record of a log
\* Instants are counted in ticks from `since`, the start of the day of the
\* column; the day has TicksPerDay of them, and `until`, time.max of the
\* day, is its last.  A stored range is in 1/TicksPerDay of the day:
\* (t - since).total_seconds() / DAY_SECONDS.
since == 0

until == TicksPerDay - 1

\* A record: its start, and its end unless it is open (record['end'] is
\* None).
Record(start_time, end_time, open) ==
    [start |-> start_time, end |-> end_time, open |-> open]

\* calendar.py _refresh_data, lines 398-403, and app.py refresh_data: the
\* end of a record, now for an open one.
EndTime(r, at) == IF r.open THEN at ELSE r.end

\* calendar.py _refresh_data, line 405: the record is outside the day.
Skipped(start_time, end_time) == start_time > until \/ end_time < since

\* calendar.py _refresh_data, lines 398-420: the ranges appended for one
\* record.
CalendarRanges(r, at) ==
    LET start_time == r.start
        end_time == EndTime(r, at)
    IN  IF Skipped(start_time, end_time) THEN <<>>
        ELSE LET clamped_start == IF start_time < since THEN since
                                  ELSE start_time
                 clamped_end == IF end_time > until THEN until ELSE end_time
             IN  <<[start |-> clamped_start - since,
                    end |-> clamped_end - since]>>

\* app.py refresh_data, lines 1332-1347: the ranges appended for one record.
AppRanges(r, at) ==
    <<[start |-> r.start - since, end |-> EndTime(r, at) - since]>>

\* The records and the clock: instants from a day before the day of the
\* column to a day after it.
Instants == (-TicksPerDay)..(2 * TicksPerDay)

Records ==
    {Record(s, e, FALSE) : s \in Instants, e \in Instants}
        \cup {Record(s, s, TRUE) : s \in Instants}

IngestIdle ==
    /\ record = Record(0, 0, FALSE)
    /\ now = 0
    /\ stored = <<>>
    /\ ingest_last = "input"

InitIngest ==
    /\ record \in Records
    /\ now \in Instants
    /\ stored = <<>>
    /\ ingest_last = "input"

\* calendar.py _refresh_data reads the record.
CalendarIngest ==
    /\ ingest_last = "input"
    /\ stored' = CalendarRanges(record, now)
    /\ ingest_last' = "calendar.py"
    /\ UNCHANGED <<record, now>>
    /\ UNCHANGED <<listVars, calVars, appVars, exited, cellVars, renderVars,
                   loopVars, paintVars, barVars, reportVars>>

\* app.py refresh_data reads the record.
AppIngest ==
    /\ ingest_last = "input"
    /\ stored' = AppRanges(record, now)
    /\ ingest_last' = "app.py"
    /\ UNCHANGED <<record, now>>
    /\ UNCHANGED <<listVars, calVars, appVars, exited, cellVars, renderVars,
                   loopVars, paintVars, barVars, reportVars>>

NextIngest ==
    \/ CalendarIngest
    \/ AppIngest

\* ------------------------------------------------- RangeBar (range_bar.py)
\* A highlighted range is in 1/BarParts of the bar, and a position among
\* the cells (start * width) in 1/BarParts of a cell.

\* BarCS.merge; "Unknown state" when no branch is taken.
merge(self, other) ==
    CASE self = "EMPTY" -> other
      [] self = "FULL" -> self
      [] self = "LEFT" ->
             IF other = "RIGHT" THEN "FULL"
             ELSE IF other = "FULL" THEN other ELSE self
      [] self = "RIGHT" ->
             IF other = "LEFT" THEN "FULL"
             ELSE IF other = "FULL" THEN other ELSE self
      [] OTHER -> "Unknown state"

\* content[i] = content[i].merge(state), i counted from 0; an i outside the
\* list raises IndexError.
Merged(st, i, state) ==
    IF st.raised # "" THEN st
    ELSE IF i < -Len(st.content) \/ i >= Len(st.content)
    THEN [st EXCEPT !.raised = "IndexError", !.indexed = @ \cup {i}]
    ELSE LET at == (IF i < 0 THEN i + Len(st.content) ELSE i) + 1
             new == merge(st.content[at], state)
         IN  IF new = "Unknown state"
             THEN [st EXCEPT !.raised = new, !.indexed = @ \cup {i}]
             ELSE [st EXCEPT !.content[at] = new, !.indexed = @ \cup {i}]

\* __rich_console__, lines 77-78: the cells from i to end - 1 become FULL.
RECURSIVE MergedFull(_, _, _)
MergedFull(st, i, end) ==
    IF i >= end THEN st ELSE MergedFull(Merged(st, i, "FULL"), i + 1, end)

\* __rich_console__, line 74: the cell that takes the RIGHT half of a range
\* that ends in the second half of cell end.
RightCell(end) == end + 1

\* __rich_console__, lines 55-78: one highlighted range.
Highlight(st, highlight_range, width) ==
    LET start == Max(highlight_range.start * width, 0)
        end == Min(highlight_range.end * width, width * BarParts)
        underflow == start % BarParts
        overflow == end % BarParts
        istart == start \div BarParts
        iend == end \div BarParts
        left == IF 2 * underflow >= BarParts
                THEN Merged(st, istart, "LEFT") ELSE st
        from == IF 2 * underflow >= BarParts THEN istart + 1 ELSE istart
        right == IF 2 * overflow >= BarParts
                 THEN Merged(left, RightCell(iend), "RIGHT") ELSE left
    IN  MergedFull(right, from, iend)

RECURSIVE Highlights(_, _, _, _)
Highlights(st, ranges, n, width) ==
    IF n > Len(ranges) \/ st.raised # "" THEN st
    ELSE Highlights(Highlight(st, ranges[n], width), ranges, n + 1, width)

\* __rich_console__, lines 102-140: the glyph of a cell between its
\* neighbours ("None" past either end of the bar); "Unhandled bar state"
\* when no case matches.
Glyph(c_prev, c_curr, c_next) ==
    CASE c_curr = "LEFT" -> <<"heavy left", "highlight">>
      [] c_curr = "RIGHT" -> <<"heavy right", "highlight">>
      [] c_curr = "FULL" -> <<"heavy horizontal", "highlight">>
      [] c_curr = "EMPTY" /\ <<c_prev, c_next>> \in
             {<<"EMPTY", "EMPTY">>, <<"EMPTY", "LEFT">>, <<"RIGHT", "EMPTY">>,
              <<"RIGHT", "LEFT">>, <<"EMPTY", "None">>, <<"RIGHT", "None">>,
              <<"None", "EMPTY">>, <<"None", "LEFT">>} ->
             <<"heavy horizontal", "background">>
      [] c_curr = "EMPTY" /\ <<c_prev, c_next>> \in
             {<<"LEFT", "EMPTY">>, <<"LEFT", "LEFT">>, <<"FULL", "EMPTY">>,
              <<"FULL", "LEFT">>, <<"LEFT", "None">>, <<"FULL", "None">>} ->
             <<"heavy left", "background">>
      [] c_curr = "EMPTY" /\ <<c_prev, c_next>> \in
             {<<"EMPTY", "RIGHT">>, <<"EMPTY", "FULL">>, <<"RIGHT", "RIGHT">>,
              <<"RIGHT", "FULL">>, <<"None", "RIGHT">>, <<"None", "FULL">>} ->
             <<"heavy right", "background">>
      [] c_curr = "EMPTY" /\ <<c_prev, c_next>> \in
             {<<"LEFT", "RIGHT">>, <<"LEFT", "FULL">>, <<"FULL", "RIGHT">>,
              <<"FULL", "FULL">>} ->
             <<"space", "background">>
      [] OTHER -> <<"Unhandled bar state">>

\* __rich_console__, lines 80-140: the glyphs yielded for the cells, up to
\* the first cell that raises.
RECURSIVE Glyphs(_, _, _)
Glyphs(content, i, out) ==
    IF i > Len(content) THEN [raised |-> "", glyphs |-> out]
    ELSE LET g == Glyph(IF i > 1 THEN content[i - 1] ELSE "None",
                        content[i],
                        IF i < Len(content) THEN content[i + 1] ELSE "None")
         IN  IF Len(g) = 1 THEN [raised |-> g[1], glyphs |-> out]
             ELSE Glyphs(content, i + 1, Append(out, g))

\* RangeBar.__rich_console__
__rich_console__(ranges, width) ==
    LET st == Highlights([content |-> [i \in 1..width |-> "EMPTY"],
                          indexed |-> {}, raised |-> ""],
                         ranges, 1, width)
        drawn == Glyphs(st.content, 1, <<>>)
    IN  IF st.raised # ""
        THEN [raised |-> st.raised, glyphs |-> <<>>, indexed |-> st.indexed]
        ELSE [raised |-> drawn.raised, glyphs |-> drawn.glyphs,
              indexed |-> st.indexed]

\* The highlighted ranges: 0 <= start <= end <= 1, on the grid of
\* 1/BarParts.
BarRanges ==
    {r \in [start : 0..BarParts, end : 0..BarParts] : r.start <= r.end}

NoBar == [raised |-> "", glyphs |-> <<>>, indexed |-> {}]

BarIdle ==
    /\ highlighted_ranges = <<>>
    /\ max_width = 1
    /\ bar = NoBar
    /\ bar_last = "input"

InitBar ==
    /\ highlighted_ranges \in UNION {[1..n -> BarRanges] : n \in 0..MaxBarRanges}
    /\ max_width \in 1..MaxBarWidth
    /\ bar = NoBar
    /\ bar_last = "input"

\* The console draws the bar.
DrawBar ==
    /\ bar_last = "input"
    /\ bar' = __rich_console__(highlighted_ranges, max_width)
    /\ bar_last' = "__rich_console__"
    /\ UNCHANGED <<highlighted_ranges, max_width>>
    /\ UNCHANGED <<listVars, calVars, appVars, exited, cellVars, renderVars,
                   loopVars, paintVars, ingestVars, reportVars>>

NextBar == DrawBar

\* ------------------------------------------------ month report (report.py)
\* A date is a record of year, month and day; two records that are no date
\* stand for the ValueError date() raises and for a day that is None.

ValueError == [year |-> 0, month |-> 0, day |-> 0]

NoDay == [year |-> 0, month |-> 0, day |-> -1]

NoDays == <<NoDay, NoDay>>

IsLeap(year) == year % 4 = 0 /\ (year % 100 # 0 \/ year % 400 = 0)

DaysIn(year, month) ==
    IF month = 2 THEN (IF IsLeap(year) THEN 29 ELSE 28)
    ELSE IF month \in {4, 6, 9, 11} THEN 30 ELSE 31

\* datetime.date(year, month, day): ValueError unless month is in 1..12
\* and day is a day of that month.
date(year, month, d) ==
    IF month \in 1..12 /\ d \in 1..DaysIn(year, month)
    THEN [year |-> year, month |-> month, day |-> d]
    ELSE ValueError

\* d - timedelta(days=1)
DayBefore(d) ==
    IF d.day > 1 THEN [d EXCEPT !.day = @ - 1]
    ELSE IF d.month > 1
    THEN [year |-> d.year, month |-> d.month - 1,
          day |-> DaysIn(d.year, d.month - 1)]
    ELSE [year |-> d.year - 1, month |-> 12, day |-> 31]

\* d + timedelta(days=i)
RECURSIVE DaysAfter(_, _)
DaysAfter(d, i) ==
    IF i = 0 THEN d
    ELSE DaysAfter(IF d.day < DaysIn(d.year, d.month)
                   THEN [d EXCEPT !.day = @ + 1]
                   ELSE IF d.month < 12
                   THEN [year |-> d.year, month |-> d.month + 1, day |-> 1]
                   ELSE [year |-> d.year + 1, month |-> 1, day |-> 1],
                   i - 1)

\* _get_month_start
_get_month_start(d) == date(d.year, d.month, 1)

\* The month after the month of d, as on_button_pressed (`next`), month_end
\* and _refresh_data compute it.
MonthAfter(d) == date(d.year, d.month + 1, 1)

\* The month before the month of d, as on_button_pressed (`previous`)
\* computes it.
MonthBefore(d) == date(d.year, d.month - 1, 1)

\* WorkLogReport.month_end of a month_start
month_end(start) ==
    IF MonthAfter(start) = ValueError THEN ValueError
    ELSE DayBefore(MonthAfter(start))

\* WorkLogReport.update_content, lines 316-327: the day widgets displayed.
ShownDays(start) ==
    Cardinality({i \in 0..30 : DaysAfter(start, i).month = start.month})

Years == 2023..2025

Dates ==
    {d \in [year : Years, month : 1..12, day : 1..31] :
        d.day <= DaysIn(d.year, d.month)}

\* The days a report is opened on: the first, the last and the 29th (or
\* 28th) of a month.
Todays == {d \in Dates : d.day \in {1, 28, DaysIn(d.year, d.month)}}

ReportIdle ==
    /\ today = [year |-> 2024, month |-> 6, day |-> 1]
    /\ month_start = _get_month_start(today)
    /\ heading = NoDays
    /\ shown_days = 0
    /\ total_day = NoDay
    /\ total_window = NoDays
    /\ refresh_pending = FALSE
    /\ report_raised = ""
    /\ pressed = <<>>
    /\ mounted = FALSE

InitReport ==
    /\ today \in Todays
    /\ month_start = _get_month_start(today)
    /\ heading = NoDays
    /\ shown_days = 0
    /\ total_day = NoDay
    /\ total_window = NoDays
    /\ refresh_pending = FALSE
    /\ report_raised = ""
    /\ pressed = <<>>
    /\ mounted = FALSE

\* WorkLogReport.update_content for a month_start: the heading (which needs
\* month_end), the 31 day widgets, the day of the total widget (whose
\* watch_day starts its _refresh_data when the day changes).
ReportUpdate(start, by) ==
    IF month_end(start) = ValueError
    THEN /\ report_raised' = by
         /\ UNCHANGED <<heading, shown_days, total_day, refresh_pending>>
    ELSE /\ heading' = <<start, month_end(start)>>
         /\ shown_days' = ShownDays(start)
         /\ total_day' = start
         /\ refresh_pending' = (refresh_pending \/ total_day # start)
         /\ UNCHANGED report_raised

\* WorkLogReport.on_mount
ReportMount ==
    /\ ~mounted /\ report_raised = ""
    /\ mounted' = TRUE
    /\ ReportUpdate(month_start, "on_mount")
    /\ UNCHANGED <<month_start, total_window, pressed, today>>
    /\ UNCHANGED <<listVars, calVars, appVars, exited, cellVars, renderVars,
                   loopVars, paintVars, ingestVars, barVars>>

\* WorkLogReport.on_button_pressed with watch_month_start
Press(button_name) ==
    /\ mounted /\ report_raised = ""
    /\ Len(pressed) < MaxPresses
    /\ pressed' = Append(pressed, button_name)
    /\ LET new == IF button_name = "previous" THEN MonthBefore(month_start)
                  ELSE MonthAfter(month_start)
       IN  IF new = ValueError
           THEN /\ report_raised' = button_name
                /\ UNCHANGED <<month_start, heading, shown_days, total_day,
                               refresh_pending>>
           ELSE /\ month_start' = new
                /\ IF new = month_start
                   THEN UNCHANGED <<heading, shown_days, total_day,
                                    refresh_pending, report_raised>>
                   ELSE ReportUpdate(new, "watch_month_start")
    /\ UNCHANGED <<total_window, today, mounted>>
    /\ UNCHANGED <<listVars, calVars, appVars, exited, cellVars, renderVars,
                   loopVars, paintVars, ingestVars, barVars>>

\* WorkLogReportDay._refresh_data of the total widget, lines 213-227.
TotalRefresh ==
    /\ refresh_pending /\ report_raised = ""
    /\ refresh_pending' = FALSE
    /\ IF total_day = NoDay
       THEN UNCHANGED <<total_window, report_raised>>
       ELSE IF MonthAfter(total_day) = ValueError
       THEN /\ report_raised' = "_refresh_data"
            /\ UNCHANGED total_window
       ELSE /\ total_window' = <<date(total_day.year, total_day.month, 1),
                                 DayBefore(MonthAfter(total_day))>>
            /\ UNCHANGED report_raised
    /\ UNCHANGED <<month_start, heading, shown_days, total_day, pressed,
                   today, mounted>>
    /\ UNCHANGED <<listVars, calVars, appVars, exited, cellVars, renderVars,
                   loopVars, paintVars, ingestVars, barVars>>

NextReport ==
    \/ ReportMount
    \/ \E button_name \in {"previous", "next"} : Press(button_name)
    \/ TotalRefresh

\* ---------------------------------------------------------- specifications
\* The app runs; the other parts of the program are not in use.
\* The parts of the program that are not in use.
MoreIdle == PaintIdle /\ IngestIdle /\ BarIdle /\ ReportIdle

InitRest ==
    exited = FALSE /\ CellIdle /\ RenderIdle /\ LoopIdle /\ MoreIdle

\* The LogList alone.
Init == InitList /\ InitCal /\ InitOneApp /\ InitRest

Next == NextList

Spec == Init /\ [][Next]_vars

\* The day column of calendar.py alone.
InitCalendar == InitOneList /\ InitCal /\ InitOneApp /\ InitRest

SpecCal == InitCalendar /\ [][NextCal]_vars

\* The day column of app.py alone.
InitAppCalendar == InitOneList /\ InitCal /\ InitApp /\ InitRest

SpecApp == InitAppCalendar /\ [][NextApp]_vars

\* The paged LogList against a feed that changes.
InitFeed == InitPagedList /\ InitCal /\ InitOneApp /\ InitRest

SpecFeed == InitFeed /\ [][NextFeed]_vars

\* The LogList with requests that fail.
SpecListFail == Init /\ [][NextListFail]_vars

\* The day column of calendar.py with requests that fail.
SpecCalFail == InitCalendar /\ [][NextCalFail]_vars

\* Calls of _merge_ranges and WLCalCS.from_ranges.
InitCells ==
    /\ InitOneList /\ InitCal /\ InitOneApp
    /\ exited = FALSE /\ InitCell /\ RenderIdle /\ LoopIdle /\ MoreIdle

SpecCell == InitCells /\ [][NextCell]_vars

\* Calls of WorkLogCalendarDay.render.
InitRender ==
    /\ InitOneList /\ InitCal /\ InitOneApp
    /\ exited = FALSE /\ CellIdle /\ InitDrawn /\ LoopIdle /\ MoreIdle

SpecRender == InitRender /\ [][NextRender]_vars

\* The day column of calendar.py, drawn while it loads.
InitRedraw ==
    /\ InitOneList /\ InitCal /\ InitOneApp
    /\ exited = FALSE /\ CellIdle /\ RenderIdle /\ MoreIdle
    /\ lines = Blank /\ turn = 0 /\ placed = <<>>
    /\ name_hash \in HashOfNames

SpecRedraw == InitRedraw /\ [][NextRedraw]_vars

\* The LogList without user input; the event loop goes on as long as a
\* worker or a callback is pending.
SpecAuto == Init /\ [][NextAuto]_vars /\ WF_vars(NextAuto)

\* A RangeBar is drawn.
InitRangeBar ==
    /\ InitOneList /\ InitCal /\ InitOneApp
    /\ exited = FALSE /\ CellIdle /\ RenderIdle /\ LoopIdle
    /\ PaintIdle /\ IngestIdle /\ InitBar /\ ReportIdle

SpecBar == InitRangeBar /\ [][NextBar]_vars

\* The month report is opened and its buttons are pressed.
InitMonthReport ==
    /\ InitOneList /\ InitCal /\ InitOneApp
    /\ exited = FALSE /\ CellIdle /\ RenderIdle /\ LoopIdle
    /\ PaintIdle /\ IngestIdle /\ BarIdle /\ InitReport

SpecReport == InitMonthReport /\ [][NextReport]_vars

\* The loaders of the day columns read a record.
InitRecords ==
    /\ InitOneList /\ InitCal /\ InitOneApp
    /\ exited = FALSE /\ CellIdle /\ RenderIdle /\ LoopIdle
    /\ PaintIdle /\ InitIngest /\ BarIdle /\ ReportIdle

SpecIngest == InitRecords /\ [][NextIngest]_vars

\* The loop of render, turn by turn.
InitRenderLoop ==
    /\ InitOneList /\ InitCal /\ InitOneApp
    /\ exited = FALSE /\ CellIdle /\ InitLoop /\ MoreIdle

SpecLoop == InitRenderLoop /\ [][NextLoop]_vars

\* ------------------------------------------------------------------ claims
\* The feed a LogList pages through: the active log in only-active mode,
\* the list endpoint's logs otherwise.
FeedOfMode == IF logs_only_active = "True" THEN get_active ELSE Feed

visible(id) == ~(logs_only_active = "False" /\ active(id))

ChildIds == [i \in 1..Len(children) |-> children[i].id]

\* C1: a page whose fetch was launched before the most recent reload_logs
\* is never appended to the list after that reload: every widget of the
\* list comes from a fetch launched since the last reload.
C1_NoStalePageAppended ==
    \A i \in 1..Len(children) : children[i].epoch = epoch

\* C2: when _add_logs is run with a captured offset that differs from the
\* current logs_offset, nothing is appended and logs_offset,
\* logs_reached_end and loading are left unchanged.
C2_StaleResultDiscarded ==
    [][(/\ callbacks # <<>>
        /\ Head(callbacks).fn = "_add_logs"
        /\ Head(callbacks).at_offset # logs_offset
        /\ last'.op = "_add_logs")
       => UNCHANGED <<children, logs_offset, logs_reached_end, loading>>]_vars

\* C2 witness: a result captured at offset 10 was discarded at offset 0.
C2_Witness ==
    /\ last.op = "_add_logs"
    /\ ~last.hit
    /\ last.at = limit
    /\ logs_offset = 0

\* C3: against an unchanging feed the accepted pages are consecutive and
\* non-overlapping: the accepted logs are exactly the first logs_offset
\* logs of the feed, and the list shows each of them (the hidden active one
\* apart) exactly once, in order.
C3_PagesConsecutive ==
    feedChanges = 0 =>
        /\ logs_offset <= Len(FeedOfMode)
        /\ accepted = SubSeq(FeedOfMode, 1, logs_offset)
        /\ ChildIds = SelectSeq(accepted, visible)

\* C3 witness: two pages were accepted, the whole feed is in the list.
C3_Witness ==
    /\ logs_only_active # "True"
    /\ logs_paging
    /\ feedLen > limit
    /\ logs_offset = feedLen
    /\ Len(accepted) = feedLen

\* C4: an accepted page of exactly limit logs in paging mode leaves
\* logs_reached_end false; an accepted shorter page, and any accepted result
\* in only-active or non-paging mode, sets it.
C4_ReachedEndByPageLength ==
    (last.op = "_add_logs" /\ last.hit)
    => (logs_reached_end <=>
           (\/ logs_only_active = "True"
            \/ ~logs_paging
            \/ logs_offset - last.at < limit))

\* C4 witness: a full page, then a short page: the loader is exhausted.
C4_Witness ==
    /\ logs_only_active # "True"
    /\ logs_paging
    /\ last.op = "_add_logs"
    /\ last.hit
    /\ last.at = limit
    /\ logs_offset > limit
    /\ logs_reached_end

\* C5: once logs_reached_end is true, no worker sends a request, a load
\* trigger (scroll crossing, check_load_more_logs, a direct load_more_logs
\* call, the worker a trigger started) changes neither logs_offset,
\* logs_reached_end nor the items, and only reload_logs, which resets the
\* offset to 0, ends the exhaustion.
C5_ExhaustedTriggersNoOp ==
    [][logs_reached_end =>
        /\ last'.op # "request"
        /\ (last'.op \in {"watch_scroll_y", "check_load_more_logs",
                          "load_more_logs", "worker_return"}
             => UNCHANGED <<logs_offset, logs_reached_end, children>>)
        /\ (~logs_reached_end' =>
                last'.op = "reload_logs" /\ logs_offset' = 0)]_vars

\* C6: logs_offset is the total length of the pages accepted since the last
\* reload (hidden logs counted); it changes only by reload_logs (to 0) or
\* by an accepted page (by its length); and a request carries the
\* logs_offset the worker captured when its body started.
C6_OffsetCountsAccepted ==
    /\ [](logs_offset = Len(accepted))
    /\ [](\A i \in 1..Len(workers) :
            (workers[i].pc = "fetching" /\ logs_only_active # "True"
             /\ logs_paging) => workers[i].req = workers[i].offset)
    /\ []((last.op = "request" /\ logs_only_active # "True" /\ logs_paging)
          => \E i \in 1..Len(workers) :
                /\ workers[i].pc = "fetching"
                /\ workers[i].req = logs_offset)
    /\ [][logs_offset' # logs_offset =>
            \/ last'.op = "reload_logs" /\ logs_offset' = 0
            \/ /\ last'.op = "_add_logs"
               /\ last'.hit
               /\ logs_offset' = logs_offset + Len(Head(callbacks).logs)]_vars

\* C6 witness: a full page that holds the hidden active log was accepted.
C6_Witness ==
    /\ logs_only_active = "False"
    /\ hasActive
    /\ logs_offset = limit
    /\ Len(children) = limit - 1

C8_AtMostOneFetch ==
    /\ Len(workers) <= 1
    /\ Len(cal_workers) <= 1
    /\ Len(app_workers) <= 1

\* C9: a day column never holds a range of a fetch launched before its
\* last reset, nor a range fetched for another day than the one it shows.
C9_NoStaleRanges ==
    /\ \A i \in 1..Len(_ranges) :
           _ranges[i].gen = cal_gen /\ _ranges[i].day = day
    /\ \A i \in 1..Len(app_ranges) :
           app_ranges[i].gen = app_gen /\ app_ranges[i].day = app_day

\* C10: the ranges of a day column and the offset, reached_end and items of
\* a LogList are written only by handlers and callbacks of the dispatch
\* thread, never by a step of a fetch worker's body.
C10_OnlyDispatchWrites ==
    [][/\ (_ranges' # _ranges => cal_last' \in {"watch_day", "refresh_data"})
       /\ (app_ranges' # app_ranges => app_last' = "watch_day")
       /\ (<<logs_offset, logs_reached_end, children>>'
               # <<logs_offset, logs_reached_end, children>>
            => last'.op \in {"reload_logs", "_add_logs"})]_vars

\* C11: a page fetch of a LogList that fails leaves logs_reached_end,
\* logs_offset and the items as they were, and afterwards a trigger can still
\* start a fetch (the app still runs its LogList), so that pagination is not
\* stopped for good.
C11_FailureKeepsPaging ==
    /\ [][last'.op = "worker_error" =>
            UNCHANGED <<logs_reached_end, logs_offset, children>>]_vars
    /\ [](last.op = "worker_error" => ENABLED ListRuns)

\* The ranges a column shows, without the history of their fetch.
Shown(rs) == {<<rs[i].day, rs[i].idx>> : i \in 1..Len(rs)}

\* C12: when a refresh_data on an unchanged day ends in a fetch failure, the
\* column still holds the ranges it held when the refresh was requested.
C12_FailedRefreshKeepsRanges ==
    (cal_last = "worker_error" /\ cal_held.valid)
        => Shown(cal_held.ranges) \subseteq Shown(_ranges)

\* The points of a cell that a list of ranges covers, on a grid twice as fine
\* as the positions (so that the gap between two positions is a point).
Covered(rs) ==
    {x \in 0..(2 * Unit) :
        \E i \in 1..Len(rs) : 2 * rs[i].start <= x /\ x <= 2 * rs[i].end}

\* The ranges leave a gap: a point that none of them covers lies between
\* two ranges, so that their union is more than one interval.
HasGap(rs) ==
    \E y \in 0..(2 * Unit) :
        /\ \A i \in 1..Len(rs) : ~(2 * rs[i].start <= y /\ y <= 2 * rs[i].end)
        /\ \E i \in 1..Len(rs) :
               rs[i].start <= rs[i].end /\ 2 * rs[i].end < y
        /\ \E i \in 1..Len(rs) :
               rs[i].start <= rs[i].end /\ y < 2 * rs[i].start

\* The ends of the union of a list of ranges that has no gap.
UnionStart(rs) ==
    CHOOSE a \in {rs[i].start : i \in 1..Len(rs)} :
        \A i \in 1..Len(rs) : a <= rs[i].start

UnionEnd(rs) ==
    CHOOSE b \in {rs[i].end : i \in 1..Len(rs)} :
        \A i \in 1..Len(rs) : b >= rs[i].end

OneInterval(rs) == rs # <<>> /\ ~HasGap(rs)

\* The orders a list can be given in.
Orders(rs) ==
    {[i \in 1..Len(rs) |-> rs[p[i]]] :
        p \in {q \in [1..Len(rs) -> 1..Len(rs)] :
                  \A i, j \in 1..Len(rs) : q[i] = q[j] => i = j}}

\* C13: render is a total function of _ranges: for every content (values
\* below 0 or above 1, zero-length ranges, ranges ending exactly at 1.0, a
\* range starting in the last row, end < start, any number of ranges) it
\* raises no exception, never indexes outside rows 0..95, and produces
\* exactly 96 rows.
C13_RenderTotal ==
    render_last = "render" =>
        /\ ~output.raised
        /\ output.indexed \subseteq 0..95
        /\ Len(output.rows) = 96

C13_Witness ==
    /\ render_last = "render"
    /\ Len(drawn_ranges) = 2
    /\ drawn_ranges[1].start < 0 /\ drawn_ranges[1].end > DayUnit
    /\ drawn_ranges[2].end < drawn_ranges[2].start
    /\ drawn_ranges[2].start \in (DayUnit - Unit + 1)..(DayUnit - 1)
    /\ Len(output.rows) = 96
    /\ output.rows[96].cell.glyph = "full block"

\* C14: the ranges _merge_ranges returns are sorted by start, no adjacent
\* pair a, b has a.end >= b.start, their union is the union of the input
\* ranges, and the empty list gives the empty list.
C14_MergeSortedDisjoint ==
    cell_last = "_merge_ranges" =>
        /\ \A i \in 1..(Len(merged_ranges) - 1) :
               /\ merged_ranges[i].start <= merged_ranges[i + 1].start
               /\ ~(merged_ranges[i].end >= merged_ranges[i + 1].start)
        /\ Covered(merged_ranges) = Covered(cell_ranges)
        /\ (cell_ranges = <<>> => merged_ranges = <<>>)

\* C14 witness: two touching ranges, given in descending order, came out
\* as one.
C14_Witness ==
    /\ cell_last = "_merge_ranges"
    /\ Len(cell_ranges) = 2
    /\ cell_ranges[2].end = cell_ranges[1].start
    /\ cell_ranges[2].start < cell_ranges[2].end
    /\ cell_ranges[1].start < cell_ranges[1].end
    /\ Len(merged_ranges) = 1

C16_SeveralIsFuzzy ==
    cell_last = "from_ranges" =>
        /\ (cell_ranges = <<>> => cell_state.state = EMPTY)
        /\ (HasGap(cell_ranges) => cell_state.state = FUZZY)

\* C16 witness: two disjoint ranges, the first from the left edge of the
\* cell, classified FUZZY.
C16_Witness ==
    /\ cell_last = "from_ranges"
    /\ Len(cell_ranges) = 2
    /\ HasGap(cell_ranges)
    /\ cell_ranges[1].start = 0
    /\ cell_ranges[1].end > 0
    /\ cell_state.state = FUZZY

\* C17: when the union of the ranges is one interval that starts less than
\* 1/16 from 0 and ends no more than 1/16 before 1, from_ranges gives FULL,
\* also when touching or overlapping ranges form the interval.
C17_UnionFull ==
    (/\ cell_last = "from_ranges"
     /\ OneInterval(cell_ranges)
     /\ UnionStart(cell_ranges) < half_step
     /\ UnionEnd(cell_ranges) >= Unit - half_step)
        => cell_state.state = FULL

\* C17 witness: two touching ranges, neither of them the whole cell, FULL.
C17_Witness ==
    /\ cell_last = "from_ranges"
    /\ Len(cell_ranges) = 2
    /\ cell_ranges[1].end = cell_ranges[2].start
    /\ cell_ranges[1].start = 0
    /\ cell_ranges[1].end < Unit
    /\ cell_ranges[2].start > 0
    /\ cell_ranges[2].end = Unit
    /\ cell_state.state = FULL

\* The largest k in 1..7 with end >= k/8 - 1/16, 0 when there is none.
EighthReached(end) ==
    LET K == {k \in 1..7 : 16 * end >= (2 * k - 1) * Unit}
    IN  IF K = {} THEN 0 ELSE CHOOSE k \in K : \A j \in K : j <= k

\* C18: one merged range with start < 1/16 and end < 15/16 gives END_k for
\* the largest k in 1..7 with end >= k/8 - 1/16, EMPTY when there is none;
\* k never decreases as the end grows, and {0, 0.5} gives END_4.
C18_EndEighth ==
    /\ from_ranges(<<Range(0, Unit \div 2, "")>>).state = END(4)
    /\ (/\ cell_last = "from_ranges"
        /\ OneInterval(cell_ranges)
        /\ UnionStart(cell_ranges) < half_step
        /\ UnionEnd(cell_ranges) < Unit - half_step)
           => /\ cell_state.state =
                    IF EighthReached(UnionEnd(cell_ranges)) = 0 THEN EMPTY
                    ELSE END(EighthReached(UnionEnd(cell_ranges)))
              /\ \A e \in UnionEnd(cell_ranges)..(Unit - half_step - 1) :
                    from_ranges(<<Range(UnionStart(cell_ranges), e, "")>>)
                        .state.k >= cell_state.state.k

\* C18 witness: a range from 0 that ends exactly at 1/2 - 1/16 was
\* classified END_4.
C18_Witness ==
    /\ cell_last = "from_ranges"
    /\ Len(cell_ranges) = 1
    /\ cell_ranges[1].start = 0
    /\ 16 * cell_ranges[1].end = 7 * Unit
    /\ cell_state.state = END(4)

\* The state of the mirrored cell.
Mirrored(state) ==
    CASE state.kind = "END" -> START(state.k)
      [] state.kind = "START" -> END(state.k)
      [] OTHER -> state

\* C19: the classification of START_k mirrors that of END_k: for every
\* single range [s, e] the state of [1 - e, 1 - s] is the mirrored state of
\* [s, e].
C19_StartMirrorsEnd ==
    (cell_last = "from_ranges" /\ Len(cell_ranges) = 1) =>
        from_ranges(<<Range(Unit - cell_ranges[1].end,
                            Unit - cell_ranges[1].start,
                            cell_ranges[1].color)>>).state
            = Mirrored(cell_state.state)

\* C20: one merged range with start >= 1/16 and end < 15/16 gives MIDDLE
\* exactly when start < 1/2 + 1/16 and end >= 1/2 - 1/16, FUZZY otherwise.
C20_MiddleOrFuzzy ==
    (/\ cell_last = "from_ranges"
     /\ OneInterval(cell_ranges)
     /\ UnionStart(cell_ranges) >= half_step
     /\ UnionEnd(cell_ranges) < Unit - half_step)
        => cell_state.state =
               IF /\ 16 * UnionStart(cell_ranges) < 9 * Unit
                  /\ 16 * UnionEnd(cell_ranges) >= 7 * Unit
               THEN MIDDLE ELSE FUZZY

\* C20 witness: a short range inside the left half of the cell, FUZZY.
C20_Witness ==
    /\ cell_last = "from_ranges"
    /\ Len(cell_ranges) = 1
    /\ cell_ranges[1].start >= half_step
    /\ cell_ranges[1].start < cell_ranges[1].end
    /\ 16 * cell_ranges[1].end < 7 * Unit
    /\ cell_state.state = FUZZY

\* The label of a row: lines_texts[row].
LabelAt(st, row) == st.lines_texts[row + 1]

\* C21: during label placement in render every row holds at most one label
\* at every step, a label once assigned to a row is never overwritten or
\* moved by the placement of a later range, and no two ranges are ever
\* assigned the same row.
C21_LabelsKept ==
    /\ [](/\ \A n \in 1..Len(placed) : Cardinality(placed[n]) <= 1
          /\ \A n, k \in 1..Len(placed) :
                 n # k => placed[n] \cap placed[k] = {})
    /\ [][\A row \in 0..(CALENDAR_HEIGHT - 1) :
              LabelAt(lines, row).name # None =>
                  LabelAt(lines', row) = LabelAt(lines, row)]_vars

\* C21 witness: the second of two ranges that start at row 10 has its
\* label in row 11, and the first still has its own in row 10.
C21_Witness ==
    /\ turn = 2
    /\ drawn_ranges[1].start = 10 * Unit /\ drawn_ranges[2].start = 10 * Unit
    /\ drawn_ranges[1].name # drawn_ranges[2].name
    /\ placed = <<{10}, {11}>>
    /\ LabelAt(lines, 10).name = drawn_ranges[1].name
    /\ LabelAt(lines, 11).name = drawn_ranges[2].name

\* The row a range starts to look for a free row at: ceil(rowStart).
SearchFrom(r) ==
    LET rowStart == Min(Max(r.start * CALENDAR_HEIGHT, 0),
                        CALENDAR_HEIGHT * DayUnit)
    IN  CHOOSE c \in 0..CALENDAR_HEIGHT :
            c * DayUnit >= rowStart /\ (c - 1) * DayUnit < rowStart

FreeFrom(st, c) ==
    {row \in c..(CALENDAR_HEIGHT - 1) : LabelAt(st, row).name = None}

\* C22: the label of each range is placed at the first label-free row at
\* or after ceil(rowStart), in the order of the ranges; it is flagged
\* "moved" exactly when that row differs from ceil(rowStart); and it is
\* dropped (no label anywhere, the ranges of the rows as they would
\* be, nothing raised) exactly when no row in ceil(rowStart)..H-1 is free.
C22_LabelAtFirstFreeRow ==
    [][turn' = turn + 1 =>
          LET r == drawn_ranges[turn']
              c == SearchFrom(r)
              free == FreeFrom(lines, c)
              first == CHOOSE row \in free : \A other \in free : row <= other
          IN  /\ ~lines'.raised
              /\ lines'.lines_ranges =
                     DrawRange([lines EXCEPT !.lines_texts =
                                                 Blank.lines_texts],
                               r, ColorOf(r.name)).lines_ranges
              /\ IF free = {}
                 THEN lines'.lines_texts = lines.lines_texts
                 ELSE /\ LabelAt(lines', first).name = r.name
                      /\ LabelAt(lines', first).moved = (first # c)
                      /\ \A row \in 0..(CALENDAR_HEIGHT - 1) :
                             row # first =>
                                 LabelAt(lines', row) = LabelAt(lines, row)]_vars

\* C22 witness: of two ranges that start at the last row the second has
\* no label, and both have their range in the last row.
C22_Witness ==
    /\ turn = 2
    /\ drawn_ranges[1].start = DayUnit - Unit
    /\ drawn_ranges[2].start = DayUnit - Unit
    /\ drawn_ranges[1].end = DayUnit - Unit
    /\ drawn_ranges[2].end = 51 * Unit
    /\ placed = <<{CALENDAR_HEIGHT - 1}, {}>>
    /\ ~lines.raised

C24_StoredRangesInDay ==
    \A i \in 1..Len(stored) :
        /\ 0 <= stored[i].start
        /\ stored[i].start <= stored[i].end
        /\ stored[i].end <= TicksPerDay

\* The ranges a turn of the loop appended to row j.
AddedTo(j) ==
    SubSeq(lines'.lines_ranges[j + 1], Len(lines.lines_ranges[j + 1]) + 1,
           Len(lines'.lines_ranges[j + 1]))

\* rowStart and rowEnd of a range: its ends clipped to [0, 1] and scaled by
\* H, in 1/DayUnit of a row.
RowStart(r) == Min(Max(r.start, 0), DayUnit) * CALENDAR_HEIGHT

RowEnd(r) == Min(Max(r.end, 0), DayUnit) * CALENDAR_HEIGHT

\* The intersection of [rowStart, rowEnd) with row j, [j, j+1): its ends,
\* in 1/DayUnit of a row; it is empty when lo >= hi.
SpanIn(r, j) ==
    [lo |-> Max(RowStart(r), j * DayUnit),
     hi |-> Min(RowEnd(r), (j + 1) * DayUnit)]

\* The ranges of a row cover exactly [lo, hi) of the row j: the ranges that
\* are not empty are one range from lo to hi, or none when lo >= hi.
CoverExactly(rs, j, span) ==
    LET full == SelectSeq(rs, LAMBDA x : x.start < x.end)
    IN  IF span.lo >= span.hi THEN Len(full) = 0
        ELSE /\ Len(full) = 1
             /\ j * DayUnit + full[1].start * CALENDAR_HEIGHT = span.lo
             /\ j * DayUnit + full[1].end * CALENDAR_HEIGHT = span.hi

\* What row j is to receive of range r: a head at floor(rowStart), a tail
\* at floor(rowEnd), (0, 1) for the whole rows between, one (fracStart,
\* fracEnd) when both ends fall in one cell, nothing elsewhere.
Received(r, j, color) ==
    LET floorStart == RowStart(r) \div DayUnit
        floorEnd == RowEnd(r) \div DayUnit
        fracStart == (RowStart(r) % DayUnit) \div CALENDAR_HEIGHT
        fracEnd == (RowEnd(r) % DayUnit) \div CALENDAR_HEIGHT
    IN  IF fracStart # 0 /\ fracEnd # 0 /\ floorStart = floorEnd
        THEN IF j = floorStart THEN <<Range(fracStart, fracEnd, color)>>
             ELSE <<>>
        ELSE IF fracStart # 0 /\ j = floorStart
        THEN <<Range(fracStart, Unit, color)>>
        ELSE IF fracEnd # 0 /\ j = floorEnd
        THEN <<Range(0, fracEnd, color)>>
        ELSE IF RowStart(r) <= j * DayUnit /\ (j + 1) * DayUnit <= RowEnd(r)
        THEN <<Range(0, Unit, color)>>
        ELSE <<>>

\* A turn of the loop gives every row the intersection of the range with
\* the row, in the form of Received.
RowsReceive(r) ==
    \A j \in 0..(CALENDAR_HEIGHT - 1) :
        /\ AddedTo(j) = Received(r, j, ColorOf(r.name))
        /\ CoverExactly(AddedTo(j), j, SpanIn(r, j))

\* A day whose only range spans rows 10-50: rows 0-9 and 51-95 are EMPTY
\* and the label is at row 10.
Rows10To50 ==
    (/\ render_last = "render"
     /\ Len(drawn_ranges) = 1
     /\ drawn_ranges[1].start = 10 * Unit /\ drawn_ranges[1].end = 51 * Unit)
        => /\ \A j \in (0..9) \cup (51..95) :
                  output.rows[j + 1].cell.glyph = "space"
           /\ \A j \in 10..50 : output.rows[j + 1].cell.glyph = "full block"
           /\ \A j \in 0..(CALENDAR_HEIGHT - 1) :
                  (output.rows[j + 1].label.name # None) <=> (j = 10)
           /\ output.rows[11].label.space = "="

C26_ScrollCrossingStartsFetch ==
    [][last'.op = "watch_scroll_y" =>
          LET edge == IF max_scroll_y > 5 THEN max_scroll_y - 5
                      ELSE scroll_y_edge
          IN  IF scroll_y <= edge /\ scroll_y' > edge
              THEN workers' = <<NewWorker(epoch)>>
              ELSE workers' = workers]_vars

\* C26 witness: with more than five rows to scroll by, a scroll down over
\* the edge has replaced the list's workers by a new one.
C26_Witness ==
    /\ last.op = "watch_scroll_y"
    /\ last.hit
    /\ max_scroll_y > 5
    /\ scroll_y > max_scroll_y - 5
    /\ workers = <<NewWorker(epoch)>>

\* C29: for a LogList created with paging disabled, the assertion
\* logs_offset == 0 of load_more_logs holds on every execution that reaches
\* it, under every interleaving of reloads, triggers and deliveries:
\* whenever logs_offset is not 0 the loader is exhausted, and the worker
\* returns before the assertion.
C29_AssertionHolds ==
    /\ []((~logs_paging /\ logs_only_active # "True" /\ logs_offset # 0)
              => logs_reached_end)
    /\ [][(~logs_paging /\ logs_only_active # "True"
              /\ last'.op = "request")
             => logs_offset = 0 /\ logs_offset' = 0]_vars
    /\ [][(~logs_paging /\ logs_only_active # "True" /\ logs_offset # 0
              /\ \E i \in 1..Len(workers) : <<WorkerStart(i)>>_vars)
             => last'.op = "worker_return"]_vars

\* C29 witness: without paging, a worker started after the logs were
\* accepted has returned before the assertion.
C29_Witness ==
    /\ ~logs_paging
    /\ logs_only_active # "True"
    /\ logs_offset > 0
    /\ last.op = "worker_return"

\* The list can be scrolled past the edge.
ScrollablePastEdge == max_scroll_y > scroll_y_edge

\* C30: after a reload, if every fetch succeeds and the feed holds more
\* items than fit in the viewport, a LogList keeps loading without user
\* input: after each accepted full page whose items do not yet make the
\* list scrollable past the edge another fetch is eventually started, so
\* the list eventually becomes scrollable or is exhausted, and loading
\* eventually becomes false.
C30_KeepsLoading ==
    /\ (last.op = "reload_logs") ~> ~loading
    /\ (/\ feedLen > ViewRows
        /\ last.op = "_add_logs" /\ last.hit
        /\ ~logs_reached_end
        /\ ~ScrollablePastEdge) ~> (last.op = "request")
    /\ (last.op = "reload_logs" /\ feedLen > ViewRows)
           ~> (ScrollablePastEdge \/ logs_reached_end)

\* C27: RangeBar rendering is total: for every bar width >= 1 and every
\* list of highlighted ranges with 0 <= start <= end <= 1 it emits exactly
\* one glyph per cell, never indexes outside the cell array, and never
\* reaches the "Unhandled bar state" or "Unknown state" exception.
C27_RangeBarTotal ==
    bar_last = "__rich_console__" =>
        /\ bar.raised = ""
        /\ Len(bar.glyphs) = max_width
        /\ bar.indexed \subseteq 0..(max_width - 1)

\* The months of the calendar counted from year 0, and the month a number
\* of presses leads to.
MonthNumber(d) == d.year * 12 + (d.month - 1)

RECURSIVE Shift(_, _)
Shift(buttons, n) ==
    IF n > Len(buttons) THEN 0
    ELSE (IF buttons[n] = "next" THEN 1 ELSE -1) + Shift(buttons, n + 1)

LastDayOf(d) == [d EXCEPT !.day = DaysIn(d.year, d.month)]

\* C28: after any sequence of previous and next presses on the month
\* report, starting from any month, month_start is the first day of a valid
\* month shifted by exactly one month per press (January and December cross
\* the year), month_end and the window of the total row end on the last day
\* of that month, and nothing raises.
C28_MonthNavigation ==
    /\ report_raised = ""
    /\ month_start \in Dates /\ month_start.day = 1
    /\ MonthNumber(month_start)
           = MonthNumber(_get_month_start(today)) + Shift(pressed, 1)
    /\ mounted => heading = <<month_start, LastDayOf(month_start)>>
    /\ (mounted /\ ~refresh_pending) =>
           total_window = <<month_start, LastDayOf(month_start)>>

====
